---- MODULE Spec2Model ----
(***************************************************************************)
(* Kash: the per-user field-level encryption layer of the budgeting client *)
(* (key generation and caching, the AES-GCM cipher helpers, the            *)
(* transaction codec and the pages that call them).                        *)
(*                                                                         *)
(* JavaScript values are tagged records ([t |-> "number", n |-> 3]), so    *)
(* that values of different JavaScript types can be compared.  A call that *)
(* may throw returns a completion: Ok(v) or Throw(e).                      *)
(***************************************************************************)
EXTENDS Integers, Sequences, FiniteSets, TLC

VARIABLES
    probe,      \* the cipher/codec harness: inputs drawn, envelope, result
    env,        \* the build and the browser: shared secret, storage behaviour
    now,        \* the clock, in ticks
    authUser,   \* the authentication provider's current user (uid or NoUser)
    signIns,    \* sign-ins so far
    localStorage,   \* uid -> the text cached under encryptionKey_<uid>, or Null
    profile,        \* uid -> the key backup fields of the remote profile document
    transactions,   \* uid -> the documents of users/<uid>/transactions, oldest first
    entered,        \* uid -> what was typed or imported for each document (history)
    imported,       \* tab -> the last key text the page imported, and when (history)
    user,           \* tab -> the page's user variable
    encryptionKey,  \* tab -> the page's encryptionKey variable
    isEncryptionInitialized,    \* tab -> the page's flag
    busy,           \* tab -> isSubmitting / isImporting
    frames,         \* tab -> the async calls suspended at an await
    listeners,      \* tab -> uid -> the page's onSnapshot listener on the uid's records
    shown           \* tab -> the displayed transaction list, isLoading, errorMessage

(***************************************************************************)
(* Bounds of the model.                                                    *)
(***************************************************************************)
MaxIv == 2          \* initialization vectors the random source can return (harness)
MaxPageIv == 1      \* initialization vectors the random source returns to a page
MaxRandomKey == 2   \* keys the random key generator can return
TicksPerDay == 2    \* clock ticks in a day: the resolution of Timestamp.now()
MaxTime == 1        \* the clock stops here
MaxSignIns == 2     \* sign-ins in one run
MaxFrames == 2      \* async calls of one tab in flight together
MaxDocs == 1        \* documents one user's collection can hold
MaxCsvRows == 1     \* data rows of an imported file
MaxCalls == 3       \* calls of encryptData under one key, followed on their own
MaxViewDocs == 2    \* documents under the aggregate views
MaxSnapDocs == 2    \* documents added while the Transactions page listens
MaxLoads == 1       \* loadUserPreferences calls of one Profile page in flight together

(***************************************************************************)
(* JavaScript values.                                                      *)
(***************************************************************************)
Undefined == [t |-> "undefined"]
Null == [t |-> "null"]
NaN == [t |-> "NaN"]
Num(n) == [t |-> "number", n |-> n]
Str(s) == [t |-> "string", s |-> s]
Ts(ms) == [t |-> "Timestamp", ms |-> ms]
InvalidTs == [t |-> "Timestamp(NaN)"]
JsDate(ms) == [t |-> "Date", ms |-> ms]
InvalidDate == [t |-> "Date(NaN)"]

Ok(v) == [ok |-> TRUE, v |-> v]
Throw(e) == [ok |-> FALSE, v |-> [t |-> "Error", name |-> e]]

Digits == <<"0", "1", "2", "3", "4", "5", "6", "7", "8", "9">>
IsDigit(c) == \E i \in 1..10 : Digits[i] = c
DigitVal(c) == (CHOOSE i \in 1..10 : Digits[i] = c) - 1

\* the lone surrogate code unit: the one character UTF-8 cannot carry
Surrogate == "\\uD800"
Replacement == "\\uFFFD"

\* Number.prototype.toString for the integers of the model
RECURSIVE NatToStr(_)
NatToStr(n) == IF n < 10 THEN <<Digits[n + 1]>>
               ELSE NatToStr(n \div 10) \o <<Digits[(n % 10) + 1]>>
NumberToString(n) == IF n < 0 THEN <<"-">> \o NatToStr(0 - n) ELSE NatToStr(n)

\* the value of the longest prefix of digits of s, and whether there is one
RECURSIVE DigitsPrefix(_, _)
DigitsPrefix(s, acc) ==
    IF s # <<>> /\ IsDigit(Head(s))
    THEN DigitsPrefix(Tail(s), acc * 10 + DigitVal(Head(s)))
    ELSE acc

RECURSIVE TrimStart(_)
TrimStart(s) == IF s # <<>> /\ Head(s) = " " THEN TrimStart(Tail(s)) ELSE s

\* parseFloat of a string: leading white space skipped, an optional sign, the
\* longest prefix of digits; NaN when there is no digit
parseFloatStr(s) ==
    LET u == TrimStart(s)
        neg == u # <<>> /\ Head(u) = "-"
        d == IF neg THEN Tail(u) ELSE u
    IN IF d # <<>> /\ IsDigit(Head(d))
       THEN Num(IF neg THEN 0 - DigitsPrefix(d, 0) ELSE DigitsPrefix(d, 0))
       ELSE NaN

\* ToString of a value, as parseFloat, atob and TextEncoder apply it
ToStringJS(v) ==
    CASE v.t = "string" -> v.s
      [] v.t = "number" -> NumberToString(v.n)
      [] v.t = "NaN" -> <<"N", "a", "N">>
      [] v.t = "undefined" -> <<"u", "n", "d", "e", "f", "i", "n", "e", "d">>
      [] v.t = "null" -> <<"n", "u", "l", "l">>
      [] OTHER -> <<"[", "o", "b", "j", "e", "c", "t", "]">>

parseFloat(v) == parseFloatStr(ToStringJS(v))

\* JavaScript truthiness (the conditions of if, && and ||)
Truthy(v) ==
    CASE v.t = "undefined" -> FALSE
      [] v.t = "null" -> FALSE
      [] v.t = "NaN" -> FALSE
      [] v.t = "number" -> v.n # 0
      [] v.t = "string" -> v.s # <<>>
      [] OTHER -> TRUE

OrElse(a, b) == IF Truthy(a) THEN a ELSE b

(***************************************************************************)
(* Text and binary encodings.  Bytes are tagged by what produced them; the *)
(* UTF-8 bytes of a string are the sequence of its characters' encodings.  *)
(***************************************************************************)
\* TextEncoder.encode: the argument is converted to a USVString (a lone
\* surrogate becomes U+FFFD), then to UTF-8
RECURSIVE Utf8(_)
Utf8(s) ==
    IF s = <<>> THEN <<>>
    ELSE (IF Head(s) \in {Surrogate, Replacement} THEN <<"EF", "BF", "BD">>
          ELSE <<Head(s)>>) \o Utf8(Tail(s))
TextEncode(v) == [t |-> "utf8", b |-> Utf8(ToStringJS(v))]

\* TextDecoder.decode (non-fatal): never throws
RECURSIVE Utf8Decode(_)
Utf8Decode(b) ==
    IF b = <<>> THEN <<>>
    ELSE IF Len(b) >= 3 /\ SubSeq(b, 1, 3) = <<"EF", "BF", "BD">>
         THEN <<Replacement>> \o Utf8Decode(SubSeq(b, 4, Len(b)))
         ELSE <<Head(b)>> \o Utf8Decode(Tail(b))
TextDecode(bytes) ==
    IF bytes.t = "utf8" THEN Str(Utf8Decode(bytes.b)) ELSE Str(<<Replacement>>)

\* btoa(String.fromCharCode(...bytes)): the base64 text of the bytes
Btoa(bytes) == [t |-> "base64", bytes |-> bytes]

\* the characters of the model that are not in the base64 alphabet
NotBase64 == {"-", "[", "]", Surrogate, Replacement}

\* atob: the bytes of a base64 text; ASCII white space is dropped first; a
\* character outside the alphabet or a length of 1 modulo 4 throws; any other
\* text decodes to bytes that no cipher or key export produced
Atob(v) ==
    IF v.t = "base64" THEN Ok(v.bytes)
    ELSE LET s == SelectSeq(ToStringJS(v), LAMBDA c : c # " ")
         IN IF (\A i \in 1..Len(s) : s[i] \notin NotBase64) /\ Len(s) % 4 # 1
            THEN Ok([t |-> "garbage", of |-> s])
            ELSE Throw("InvalidCharacterError")

(***************************************************************************)
(* Keys and the AES-GCM primitive (crypto.subtle).                         *)
(***************************************************************************)
CryptoKey(raw) == [t |-> "CryptoKey", raw |-> raw]
RandomKeys == {CryptoKey([kind |-> "random", id |-> i]) : i \in 1..MaxRandomKey}
IvBytes(i) == [t |-> "iv", n |-> i]
Ivs == {IvBytes(i) : i \in 1..MaxIv}
PageIvs == {IvBytes(i) : i \in 1..MaxPageIv}

\* crypto.subtle.encrypt({name: 'AES-GCM', iv}, key, data): ciphertext and tag
AesGcmEncrypt(key, iv, data) ==
    [t |-> "aesgcm", key |-> key.raw, iv |-> iv, data |-> data, intact |-> TRUE]

\* crypto.subtle.decrypt: the tag verifies only under the key and the iv of
\* the encryption and only for the untouched ciphertext
AesGcmDecrypt(key, iv, bytes) ==
    IF bytes.t = "aesgcm" /\ bytes.intact /\ bytes.key = key.raw /\ bytes.iv = iv
    THEN Ok(bytes.data)
    ELSE Throw("OperationError")

\* exportKey: base64 of the raw key bytes
exportKey(key) == Btoa([t |-> "rawkey", raw |-> key.raw])

\* importKey: atob, then crypto.subtle.importKey('raw', ...), which rejects
\* bytes that are not a key
importKey(keyString) ==
    LET b == Atob(keyString)
    IN IF ~b.ok THEN b
       ELSE IF b.v.t = "rawkey" THEN Ok(CryptoKey(b.v.raw))
       ELSE Throw("DataError")

\* an encryptData that seals every envelope with one fixed iv
encryptDataFixedIv(key, data, iv) ==
    IF key = Null THEN Throw("Encryption key not available")
    ELSE Ok([encrypted |-> Btoa(AesGcmEncrypt(key, IvBytes(1), TextEncode(data))),
             iv |-> Btoa(IvBytes(1))])

\* encryptData; iv is what crypto.getRandomValues returned
encryptDataAlienIv(key, data, iv) ==
    IF key = Null THEN Throw("Encryption key not available")
    ELSE Ok([encrypted |-> Btoa(AesGcmEncrypt(key, iv, TextEncode(data))),
             iv |-> Btoa(IvBytes(0))])

encryptData(key, data, iv) ==
    IF key = Null THEN Throw("Encryption key not available")
    ELSE Ok([encrypted |-> Btoa(AesGcmEncrypt(key, iv, TextEncode(data))),
             iv |-> Btoa(iv)])

\* a decryptData that hands back the bytes it could not authenticate
decryptDataUnchecked(key, encryptedData, iv) ==
    IF key = Null THEN Throw("Encryption key not available")
    ELSE LET encryptedBuffer == Atob(encryptedData)
             ivBuffer == Atob(iv)
         IN IF ~encryptedBuffer.ok THEN encryptedBuffer
            ELSE IF ~ivBuffer.ok THEN ivBuffer
            ELSE IF encryptedBuffer.v.t = "aesgcm"
                 THEN Ok(TextDecode(encryptedBuffer.v.data))
                 ELSE Ok(TextDecode(encryptedBuffer.v))

decryptData(key, encryptedData, iv) ==
    IF key = Null THEN Throw("Encryption key not available")
    ELSE LET encryptedBuffer == Atob(encryptedData)
             ivBuffer == Atob(iv)
         IN IF ~encryptedBuffer.ok THEN encryptedBuffer
            ELSE IF ~ivBuffer.ok THEN ivBuffer
            ELSE LET decryptedBuffer ==
                         AesGcmDecrypt(key, ivBuffer.v, encryptedBuffer.v)
                 IN IF ~decryptedBuffer.ok THEN decryptedBuffer
                    ELSE Ok(TextDecode(decryptedBuffer.v))

(***************************************************************************)
(* Dates.  A date string "YYYY-MM-DD" is the day's ordinal in decimal; the *)
(* clock counts ticks, TicksPerDay of them in a day.                       *)
(***************************************************************************)
IsDateString(v) ==
    v.t = "string" /\ v.s # <<>> /\ \A i \in 1..Len(v.s) : IsDigit(v.s[i])

\* new Date().toISOString().split('T')[0] at clock time t
IsoDate(t) == Str(NatToStr(t \div TicksPerDay))

\* new Date(dateStr): midnight UTC of the day, or an Invalid Date
NewDate(dateStr) ==
    IF IsDateString(dateStr)
    THEN JsDate(DigitsPrefix(dateStr.s, 0) * TicksPerDay)
    ELSE InvalidDate

\* Timestamp.fromDate(date): the same instant; NaN from an Invalid Date
TimestampFromDate(date) ==
    IF date.t = "Date" THEN Ts(date.ms) ELSE InvalidTs

(***************************************************************************)
(* The transaction codec, read side.  A record has every field; a field    *)
(* the document lacks is Undefined.                                        *)
(***************************************************************************)
\* the amount after decryptData settled with r: parseFloat of the plaintext, or
\* the mirror the variable was initialised with when the catch block ran
AmountAfter(transaction, r) ==
    IF r.ok THEN parseFloat(r.v) ELSE transaction.amountPlain

\* the date after decryptData settled with r
DateAfter(transaction, r) ==
    IF r.ok THEN TimestampFromDate(NewDate(r.v)) ELSE transaction.datePlain

\* the amount half of decryptTransaction without its catch block
decryptAmountUncaught(key, transaction) ==
    IF Truthy(transaction.amount) /\ Truthy(transaction.amountIv)
    THEN LET r == decryptData(key, transaction.amount, transaction.amountIv)
         IN IF r.ok THEN Ok(parseFloat(r.v)) ELSE r
    ELSE Ok(transaction.amountPlain)

\* the amount half of decryptTransaction: a completion holding the value
decryptAmount(key, transaction) ==
    IF Truthy(transaction.amount) /\ Truthy(transaction.amountIv)
    THEN LET r == decryptData(key, transaction.amount, transaction.amountIv)
         IN Ok(AmountAfter(transaction, r))
    ELSE Ok(transaction.amountPlain)

\* the date half of decryptTransaction without its catch block
decryptDateUncaught(key, transaction) ==
    IF Truthy(transaction.date) /\ Truthy(transaction.dateIv)
    THEN LET r == decryptData(key, transaction.date, transaction.dateIv)
         IN IF r.ok THEN Ok(TimestampFromDate(NewDate(r.v))) ELSE r
    ELSE Ok(transaction.datePlain)

\* the date half of decryptTransaction
decryptDate(key, transaction) ==
    IF Truthy(transaction.date) /\ Truthy(transaction.dateIv)
    THEN LET r == decryptData(key, transaction.date, transaction.dateIv)
         IN Ok(DateAfter(transaction, r))
    ELSE Ok(transaction.datePlain)

\* the return of decryptTransaction from its two halves; a throw of either
\* reaches the outer catch, which returns the record as it came
decryptTransactionFrom(transaction, a, d) ==
    IF a.ok /\ d.ok
    THEN Ok([transaction EXCEPT !.amount = a.v, !.date = d.v])
    ELSE Ok(transaction)

\* a decryptTransaction without its try/catch blocks
decryptTransactionNoCatch(key, transaction) ==
    LET a == decryptAmountUncaught(key, transaction)
        d == decryptDateUncaught(key, transaction)
    IN IF ~a.ok THEN a
       ELSE IF ~d.ok THEN d
       ELSE Ok([transaction EXCEPT !.amount = a.v, !.date = d.v])

\* a decryptTransaction whose first failure abandons the whole record
decryptTransactionAllOrNothing(key, transaction) ==
    decryptTransactionFrom(transaction,
                           decryptAmountUncaught(key, transaction),
                           decryptDateUncaught(key, transaction))

\* decryptTransaction under one session key
decryptTransaction(key, transaction) ==
    decryptTransactionFrom(transaction,
                           decryptAmount(key, transaction),
                           decryptDate(key, transaction))

(***************************************************************************)
(* The pages.  Tab "add" shows the Add-Data page, tab "tx" the             *)
(* Transactions page; both run in one browser (one localStorage, one       *)
(* authentication state) against one remote store.  JavaScript runs a      *)
(* callback to its next await without interruption: an action is either an *)
(* event together with the synchronous code it starts, or the resumption   *)
(* of one suspended call up to its next await.                             *)
(***************************************************************************)
Users == {"A", "B"}
NoUser == "null"
Tabs == {"add", "tx"}

Frame(fn, pc, loc) == [fn |-> fn, pc |-> pc, loc |-> loc]

\* no shared secret or one; storage that works, that is denied (every access
\* throws) or that is full (setItem throws)
Envs ==
    {[secret |-> Undefined, storage |-> "ok"],
     [secret |-> Str(<<"s">>), storage |-> "ok"],
     [secret |-> Undefined, storage |-> "denied"],
     [secret |-> Undefined, storage |-> "full"]}

\* the key PBKDF2 derives from envKey + (user?.uid || '')
DerivedKey(secret, uid) ==
    CryptoKey([kind |-> "pbkdf2",
               material |-> secret.s \o (IF uid = NoUser THEN <<>> ELSE <<uid>>)])

AllKeys == RandomKeys \cup {DerivedKey(Str(<<"s">>), u) : u \in Users}

NoBackup == [encryptionKey |-> Null, keyBackupDate |-> Undefined]
NoDisplay == [list |-> <<>>, isLoading |-> TRUE, errorMessage |-> ""]
Idle == [isSubmitting |-> FALSE, isImporting |-> FALSE, isImportingKey |-> FALSE]

pageVars == <<user, encryptionKey, isEncryptionInitialized, busy, frames, listeners, shown>>
storeVars == <<localStorage, profile, transactions, entered, imported>>
worldVars == <<env, now, authUser, signIns>>
vars == <<probe, worldVars, storeVars, pageVars>>

CanSpawn(t) == Cardinality(frames[t]) < MaxFrames

\* listeners[t][u]: the onSnapshot listener of page t on the transactions of
\* user u: NoListener, Attached before its first snapshot, then the number of
\* documents of the last snapshot it delivered
NoListener == 0 - 2
Attached == 0 - 1

(***************************************************************************)
(* initializeEncryption.                                                   *)
(***************************************************************************)
\* the catch block: the flag is cleared and the error is rethrown; the
\* Add-Data caller logs it, the Transactions caller shows it and never
\* reaches loadTransactions.  Sets isEncryptionInitialized, frames, listeners
\* and shown.
InitThrows(t, rest) ==
    /\ isEncryptionInitialized' = [isEncryptionInitialized EXCEPT ![t] = FALSE]
    /\ frames' = [frames EXCEPT ![t] = rest]
    /\ shown' = IF t = "tx"
                THEN [shown EXCEPT ![t].errorMessage = "Failed to initialize",
                                   ![t].isLoading = FALSE]
                ELSE shown
    /\ UNCHANGED listeners

\* the flag is set and the caller goes on: on the Transactions page with
\* loadTransactions, which attaches a snapshot listener for the page's user.
\* Sets isEncryptionInitialized, frames, listeners and shown.
InitDone(t, rest) ==
    /\ isEncryptionInitialized' = [isEncryptionInitialized EXCEPT ![t] = TRUE]
    /\ frames' = [frames EXCEPT ![t] = rest]
    /\ IF t = "tx" /\ user[t] # NoUser
       THEN /\ listeners' = [listeners EXCEPT ![t][user[t]] = Attached]
            /\ shown' = [shown EXCEPT ![t].isLoading = TRUE]
       ELSE UNCHANGED <<listeners, shown>>

\* initializeEncryption to its first await, for the user uid of tab t: the
\* cache lookup, then importKey of the cached text or getMasterKey.  Sets
\* isEncryptionInitialized, frames, listeners and shown.
BeginInit(t, uid, rest) ==
    IF env.storage = "denied"
    THEN InitThrows(t, rest)
    ELSE /\ frames' =
              [frames EXCEPT ![t] = rest \cup
                  {IF Truthy(localStorage[uid])
                   THEN Frame("initializeEncryption", "importKey",
                              [storageKey |-> uid,
                               pending |-> importKey(localStorage[uid])])
                   ELSE Frame("initializeEncryption", "getMasterKey",
                              [storageKey |-> uid,
                               pending |-> IF Truthy(env.secret)
                                           THEN Ok(DerivedKey(env.secret, uid))
                                           ELSE Ok(Undefined)])}]
         /\ UNCHANGED <<isEncryptionInitialized, listeners, shown>>

(***************************************************************************)
(* Authentication events.                                                  *)
(***************************************************************************)
\* every open page has run its callback for the current authentication state
Delivered(open) == \A t \in open : user[t] = authUser

SignIn(u, open) ==
    /\ authUser = NoUser
    /\ Delivered(open)
    /\ signIns < MaxSignIns
    /\ authUser' = u
    /\ signIns' = signIns + 1
    /\ UNCHANGED <<probe, env, now, storeVars, pageVars>>

SignOut(open) ==
    /\ authUser # NoUser
    /\ Delivered(open)
    /\ authUser' = NoUser
    /\ UNCHANGED <<probe, env, now, signIns, storeVars, pageVars>>

\* the onAuthStateChanged callback of the Add-Data page
AuthStateChangedAdd ==
    LET t == "add" IN
    /\ user[t] # authUser
    /\ user' = [user EXCEPT ![t] = authUser]
    /\ IF authUser # NoUser
       THEN /\ CanSpawn(t)
            /\ BeginInit(t, authUser, frames[t])
            /\ UNCHANGED encryptionKey
       ELSE /\ encryptionKey' = [encryptionKey EXCEPT ![t] = Null]
            /\ isEncryptionInitialized' = [isEncryptionInitialized EXCEPT ![t] = FALSE]
            /\ UNCHANGED <<frames, listeners, shown>>
    /\ UNCHANGED <<probe, worldVars, storeVars, busy>>

\* the onAuthStateChanged callback of the Transactions page, to its first
\* await (the getDoc of loadUserCurrency)
AuthStateChangedTx ==
    LET t == "tx" IN
    /\ user[t] # authUser
    /\ user' = [user EXCEPT ![t] = authUser]
    /\ IF authUser # NoUser
       THEN /\ CanSpawn(t)
            /\ frames' = [frames EXCEPT ![t] = @ \cup
                             {Frame("onAuthStateChanged", "loadUserCurrency",
                                    [uid |-> authUser])}]
            /\ UNCHANGED <<encryptionKey, isEncryptionInitialized, shown>>
       ELSE /\ shown' = [shown EXCEPT ![t].list = <<>>, ![t].isLoading = FALSE]
            /\ encryptionKey' = [encryptionKey EXCEPT ![t] = Null]
            /\ isEncryptionInitialized' = [isEncryptionInitialized EXCEPT ![t] = FALSE]
            /\ UNCHANGED frames
    /\ UNCHANGED <<probe, worldVars, storeVars, busy, listeners>>

\* loadUserCurrency has returned: initializeEncryption starts (it returns at
\* once when the page's user is gone, and so does loadTransactions)
CurrencyLoaded(t) ==
    \E f \in frames[t] :
        /\ f.pc = "loadUserCurrency"
        /\ IF user[t] = NoUser
           THEN /\ frames' = [frames EXCEPT ![t] = @ \ {f}]
                /\ UNCHANGED <<isEncryptionInitialized, listeners, shown>>
           ELSE BeginInit(t, user[t], frames[t] \ {f})
        /\ UNCHANGED <<probe, worldVars, storeVars, user, encryptionKey, busy>>

\* an initialization that re-keys the user although it found a cached key
ImportKeySettledRotates(t) ==
    \E f \in frames[t] :
        /\ f.pc = "importKey"
        /\ IF f.loc.pending.ok
           THEN /\ \E k \in RandomKeys :
                      /\ encryptionKey' = [encryptionKey EXCEPT ![t] = k]
                      /\ localStorage' = [localStorage EXCEPT ![f.loc.storageKey] =
                                                                  exportKey(k)]
                /\ InitDone(t, frames[t] \ {f})
           ELSE /\ UNCHANGED <<encryptionKey, localStorage>>
                /\ InitThrows(t, frames[t] \ {f})
        /\ UNCHANGED <<probe, worldVars, profile, transactions, entered, imported,
                       user, busy>>

\* importKey(storedKey) has settled
ImportKeySettled(t) ==
    \E f \in frames[t] :
        /\ f.pc = "importKey"
        /\ IF f.loc.pending.ok
           THEN /\ encryptionKey' = [encryptionKey EXCEPT ![t] = f.loc.pending.v]
                /\ InitDone(t, frames[t] \ {f})
           ELSE /\ UNCHANGED encryptionKey
                /\ InitThrows(t, frames[t] \ {f})
        /\ UNCHANGED <<probe, worldVars, storeVars, user, busy>>

\* a getMasterKey that generates a key although a secret is configured
MasterKeySettledRandom(t) ==
    \E f \in frames[t] :
        /\ f.pc = "getMasterKey"
        /\ \E k \in RandomKeys :
              /\ encryptionKey' = [encryptionKey EXCEPT ![t] = k]
              /\ frames' = [frames EXCEPT ![t] = (@ \ {f}) \cup
                               {Frame("initializeEncryption", "exportKey",
                                      [storageKey |-> f.loc.storageKey,
                                       exportedKey |-> exportKey(k)])}]
        /\ UNCHANGED <<probe, worldVars, storeVars, user, isEncryptionInitialized,
                       busy, listeners, shown>>

\* getMasterKey has settled: the derived key, or a key generateKey drew;
\* exportKey of the page's key starts
MasterKeySettled(t) ==
    \E f \in frames[t] :
        /\ f.pc = "getMasterKey"
        /\ \E k \in (IF f.loc.pending.v = Undefined THEN RandomKeys
                     ELSE {f.loc.pending.v}) :
              /\ encryptionKey' = [encryptionKey EXCEPT ![t] = k]
              /\ frames' = [frames EXCEPT ![t] = (@ \ {f}) \cup
                               {Frame("initializeEncryption", "exportKey",
                                      [storageKey |-> f.loc.storageKey,
                                       exportedKey |-> exportKey(k)])}]
        /\ UNCHANGED <<probe, worldVars, storeVars, user, isEncryptionInitialized,
                       busy, listeners, shown>>

\* exportKey has settled: localStorage.setItem, then on the Add-Data page
\* storeEncryptionKeyInFirestore, which writes to the document of the user the
\* page holds now
KeyExported(t) ==
    \E f \in frames[t] :
        /\ f.pc = "exportKey"
        /\ IF env.storage = "full"
           THEN /\ InitThrows(t, frames[t] \ {f})
                /\ UNCHANGED localStorage
           ELSE /\ localStorage' = [localStorage EXCEPT ![f.loc.storageKey] =
                                                            f.loc.exportedKey]
                /\ IF t = "add" /\ user[t] # NoUser
                   THEN /\ frames' = [frames EXCEPT ![t] = (@ \ {f}) \cup
                                        {Frame("initializeEncryption", "setDoc",
                                               [storageKey |-> f.loc.storageKey,
                                                target |-> user[t],
                                                keyString |-> f.loc.exportedKey])}]
                        /\ UNCHANGED <<isEncryptionInitialized, listeners, shown>>
                   ELSE InitDone(t, frames[t] \ {f})
        /\ UNCHANGED <<probe, worldVars, profile, transactions, entered, imported, user,
                       encryptionKey, busy>>

\* a storeEncryptionKeyInFirestore that lets the rejection of setDoc through
\* to the catch block of initializeEncryption
BackupSettledFatal(t) ==
    \E f \in frames[t] :
        /\ f.pc = "setDoc"
        /\ \E stored \in BOOLEAN :
              /\ profile' = IF stored
                            THEN [profile EXCEPT ![f.loc.target] =
                                     [encryptionKey |-> f.loc.keyString,
                                      keyBackupDate |-> Ts(now)]]
                            ELSE profile
              /\ IF stored THEN InitDone(t, frames[t] \ {f})
                 ELSE InitThrows(t, frames[t] \ {f})
        /\ UNCHANGED <<probe, worldVars, localStorage, transactions, entered, imported, user,
                       encryptionKey, busy>>

\* the setDoc of storeEncryptionKeyInFirestore has settled: merged into the
\* profile document, or failed and logged
BackupSettled(t) ==
    \E f \in frames[t] :
        /\ f.pc = "setDoc"
        /\ \E stored \in BOOLEAN :
              profile' = IF stored
                         THEN [profile EXCEPT ![f.loc.target] =
                                  [encryptionKey |-> f.loc.keyString,
                                   keyBackupDate |-> Ts(now)]]
                         ELSE profile
        /\ InitDone(t, frames[t] \ {f})
        /\ UNCHANGED <<probe, worldVars, localStorage, transactions, entered, imported, user,
                       encryptionKey, busy>>

(***************************************************************************)
(* importEncryptionKey: the key the user pastes into the key modal.  The   *)
(* modal opens from a button that is always enabled, so the handler may    *)
(* run while an initialization of the page is still in flight.             *)
(***************************************************************************)
RECURSIVE TrimEnd(_)
TrimEnd(s) == IF s # <<>> /\ s[Len(s)] = " " THEN TrimEnd(SubSeq(s, 1, Len(s) - 1)) ELSE s

\* String.prototype.trim of the textarea's value
Trim(v) == Str(TrimEnd(TrimStart(v.s)))

\* a key exported on another device
ForeignKey == CryptoKey([kind |-> "random", id |-> 0])

\* a base64 text pasted with blanks around it
Padded(v) == [t |-> "padded", of |-> v]

\* what a user can paste: an exported key with blanks around it, text that is
\* not base64, base64 of something that is not a raw key, and blanks only
ImportTexts ==
    {Padded(exportKey(ForeignKey)), Str(<<" ", "-">>), Str(<<"x", "x">>), Str(<<" ">>)}

\* importKeyString.trim()
Trimmed(text) == IF text.t = "padded" THEN text.of ELSE Trim(text)

\* the handler to its first await, importKey of the trimmed text
importEncryptionKey(t) ==
    /\ user[t] # NoUser
    /\ ~busy[t].isImportingKey
    /\ CanSpawn(t)
    /\ \E text \in ImportTexts :
          /\ Truthy(Trimmed(text))
          /\ frames' = [frames EXCEPT ![t] = @ \cup
                           {Frame("importEncryptionKey", "testKey",
                                  [keyString |-> Trimmed(text),
                                   pending |-> importKey(Trimmed(text))])}]
    /\ busy' = [busy EXCEPT ![t].isImportingKey = TRUE]
    /\ UNCHANGED <<probe, worldVars, storeVars, user, encryptionKey,
                   isEncryptionInitialized, listeners, shown>>

\* an importEncryptionKey that caches the text before it has imported it
ImportCatchWrites(t, f) ==
    /\ localStorage' = [localStorage EXCEPT ![user[t]] = f.loc.keyString]
    /\ shown' = [shown EXCEPT ![t].errorMessage = "Invalid encryption key format"]
    /\ busy' = [busy EXCEPT ![t].isImportingKey = FALSE]
    /\ frames' = [frames EXCEPT ![t] = @ \ {f}]
    /\ UNCHANGED <<profile, transactions, entered, imported, user,
                   encryptionKey, isEncryptionInitialized, listeners>>

\* the catch and finally blocks of importEncryptionKey, entered before
\* anything was written.  Sets everything but probe and worldVars.
ImportCatch(t, f) ==
    /\ shown' = [shown EXCEPT ![t].errorMessage = "Invalid encryption key format"]
    /\ busy' = [busy EXCEPT ![t].isImportingKey = FALSE]
    /\ frames' = [frames EXCEPT ![t] = @ \ {f}]
    /\ UNCHANGED <<storeVars, user, encryptionKey, isEncryptionInitialized,
                   listeners>>

\* importKey of the pasted text has settled.  A rejection, a page whose user
\* is gone (user.uid throws) and a localStorage that refuses the write all
\* end in the catch block.  Otherwise the text is cached, the key becomes
\* the page's key and the flag is set; the Add-Data page then starts
\* storeEncryptionKeyInFirestore, the Transactions page calls
\* loadTransactions and is done.
ImportKeyTested(t) ==
    \E f \in frames[t] :
        /\ f.pc = "testKey"
        /\ IF ~f.loc.pending.ok \/ user[t] = NoUser \/ env.storage # "ok"
           THEN ImportCatch(t, f)
           ELSE /\ localStorage' = [localStorage EXCEPT ![user[t]] = f.loc.keyString]
                /\ encryptionKey' = [encryptionKey EXCEPT ![t] = f.loc.pending.v]
                /\ isEncryptionInitialized' =
                       [isEncryptionInitialized EXCEPT ![t] = TRUE]
                /\ imported' = [imported EXCEPT ![t] =
                                   [text |-> f.loc.keyString, uid |-> user[t],
                                    session |-> signIns]]
                /\ IF t = "add"
                   THEN /\ frames' = [frames EXCEPT ![t] = (@ \ {f}) \cup
                                        {Frame("importEncryptionKey", "backupSetDoc",
                                               [storageKey |-> user[t],
                                                target |-> user[t],
                                                keyString |-> f.loc.keyString])}]
                        /\ UNCHANGED <<busy, listeners, shown>>
                   ELSE /\ frames' = [frames EXCEPT ![t] = @ \ {f}]
                        /\ busy' = [busy EXCEPT ![t].isImportingKey = FALSE]
                        /\ listeners' = [listeners EXCEPT ![t][user[t]] = Attached]
                        /\ shown' = [shown EXCEPT ![t].isLoading = TRUE]
                /\ UNCHANGED <<profile, transactions, entered, user>>
        /\ UNCHANGED <<probe, worldVars>>

\* the setDoc of the import's storeEncryptionKeyInFirestore has settled:
\* merged into the profile document, or failed and logged; the modal closes
ImportBackupSettled(t) ==
    \E f \in frames[t] :
        /\ f.pc = "backupSetDoc"
        /\ \E stored \in BOOLEAN :
              profile' = IF stored
                         THEN [profile EXCEPT ![f.loc.target] =
                                  [encryptionKey |-> f.loc.keyString,
                                   keyBackupDate |-> Ts(now)]]
                         ELSE profile
        /\ frames' = [frames EXCEPT ![t] = @ \ {f}]
        /\ busy' = [busy EXCEPT ![t].isImportingKey = FALSE]
        /\ UNCHANGED <<probe, worldVars, localStorage, transactions, entered,
                       imported, user, encryptionKey, isEncryptionInitialized,
                       listeners, shown>>

Tick ==
    /\ now < MaxTime
    /\ now' = now + 1
    /\ UNCHANGED <<probe, env, authUser, signIns, storeVars, pageVars>>


(***************************************************************************)
(* The Add-Data page: handleManualSubmit and handleCSVImport.  A document  *)
(* carries the fields the codec reads and writes (category, type, currency *)
(* and the two audit timestamps are left out).                             *)
(***************************************************************************)
FormAmounts == {Num(42), Num(0 - 7)}
FormDates == {Str(<<>>), Str(<<"3">>)}
FormDescription == Str(<<"d">>)
ImportedTransaction == Str(<<"Imported Transaction">>)

\* a file, as its non-blank lines split at the commas and trimmed: the header
\* line and the data rows
CsvRows ==
    {<<Str(<<"d">>), Str(<<"4", "2">>), Str(<<"3">>)>>,
     <<Str(<<>>), Str(<<"4", "2">>), Str(<<"3">>)>>,
     <<Str(<<"d">>), Str(<<"x">>), Str(<<"3">>)>>,
     <<Str(<<"d">>), Str(<<>>), Str(<<"3">>)>>,
     <<Str(<<"d">>), Str(<<"4", "2">>), Str(<<>>)>>}
CsvFiles ==
    {[headers |-> <<"description", "amount", "date">>, rows |-> rows] :
        rows \in UNION {[1..n -> CsvRows] : n \in 0..MaxCsvRows}}
    \cup {[headers |-> <<"description", "amount">>,
           rows |-> <<<<Str(<<"d">>), Str(<<"4", "2">>)>>>>]}

\* row[header] = values[index] || '' for every header; any other property of
\* the row object is undefined
RowField(file, i, h) ==
    IF \E c \in 1..Len(file.headers) : file.headers[c] = h
    THEN LET c == CHOOSE c \in 1..Len(file.headers) : file.headers[c] = h
         IN OrElse(file.rows[i][c], Str(<<>>))
    ELSE Undefined

TotalDocs == Len(transactions["A"]) + Len(transactions["B"])
\* documents the suspended handlers of tab t may still write
PendingDocs(t) ==
    (IF \E f \in frames[t] : f.fn = "handleManualSubmit" THEN 1 ELSE 0)
    + (IF \E f \in frames[t] : f.fn = "handleCSVImport"
       THEN Len((CHOOSE f \in frames[t] : f.fn = "handleCSVImport").loc.file.rows)
       ELSE 0)

\* a document whose envelope fields are crossed
DocumentCrossed(uid, description, amountEncrypted, dateEncrypted, amountPlain, datePlain) ==
    [userId |-> Str(<<uid>>),
     description |-> description,
     amount |-> dateEncrypted.encrypted,
     amountIv |-> dateEncrypted.iv,
     date |-> amountEncrypted.encrypted,
     dateIv |-> amountEncrypted.iv,
     amountPlain |-> amountPlain,
     datePlain |-> datePlain]

\* the document the handlers build
Document(uid, description, amountEncrypted, dateEncrypted, amountPlain, datePlain) ==
    [userId |-> Str(<<uid>>),
     description |-> description,
     amount |-> amountEncrypted.encrypted,
     amountIv |-> amountEncrypted.iv,
     date |-> dateEncrypted.encrypted,
     dateIv |-> dateEncrypted.iv,
     amountPlain |-> amountPlain,
     datePlain |-> datePlain]

\* addDoc: the collection grows by the document; entered keeps what was typed
AddDoc(uid, document, by, amount, date) ==
    /\ transactions' = [transactions EXCEPT ![uid] = Append(@, document)]
    /\ entered' = [entered EXCEPT ![uid] =
                      Append(@, [by |-> by, amount |-> amount, date |-> date])]

\* the submit button is enabled only when isEncryptionInitialized and not
\* isSubmitting; the handler returns at once without a user or a key;
\* otherwise it runs to the await of encryptData(amount)
handleManualSubmit ==
    LET t == "add" IN
    /\ ~busy[t].isSubmitting /\ isEncryptionInitialized[t]
    /\ user[t] # NoUser /\ encryptionKey[t] # Null
    /\ CanSpawn(t)
    /\ TotalDocs + PendingDocs(t) < MaxDocs
    /\ \E amount \in FormAmounts, transactionDate \in FormDates, iv \in PageIvs :
          frames' = [frames EXCEPT ![t] = @ \cup
                        {Frame("handleManualSubmit", "encryptAmount",
                               [amount |-> amount, transactionDate |-> transactionDate,
                                amountEncrypted |-> Undefined,
                                pending |-> encryptData(encryptionKey[t], amount, iv)])}]
    /\ busy' = [busy EXCEPT ![t].isSubmitting = TRUE]
    /\ UNCHANGED <<probe, worldVars, storeVars, user, encryptionKey,
                   isEncryptionInitialized, listeners, shown>>

\* encryptData(amount) has settled; encryptData of the date (or of today's
\* date) is called with the key the page holds now; without a key it throws
\* and the handler ends in its catch block
SubmitAmountEncrypted ==
    LET t == "add" IN
    \E f \in frames[t] :
        /\ f.fn = "handleManualSubmit" /\ f.pc = "encryptAmount"
        /\ \E iv \in PageIvs :
              LET r == encryptData(encryptionKey[t],
                                   OrElse(f.loc.transactionDate, IsoDate(now)), iv)
              IN IF r.ok
                 THEN /\ frames' = [frames EXCEPT ![t] = (@ \ {f}) \cup
                                      {Frame("handleManualSubmit", "encryptDate",
                                             [f.loc EXCEPT !.amountEncrypted = f.loc.pending.v,
                                                           !.pending = r])}]
                      /\ UNCHANGED busy
                 ELSE /\ frames' = [frames EXCEPT ![t] = @ \ {f}]
                      /\ busy' = [busy EXCEPT ![t].isSubmitting = FALSE]
        /\ UNCHANGED <<probe, worldVars, storeVars, user, encryptionKey,
                       isEncryptionInitialized, listeners, shown>>

\* encryptData of the date has settled; the document is built for the user the
\* page holds now (user.uid throws without one) and addDoc is called
SubmitDateEncrypted ==
    LET t == "add" IN
    \E f \in frames[t] :
        /\ f.fn = "handleManualSubmit" /\ f.pc = "encryptDate"
        /\ IF user[t] # NoUser
           THEN /\ AddDoc(user[t],
                          Document(user[t], FormDescription, f.loc.amountEncrypted,
                                   f.loc.pending.v, parseFloat(f.loc.amount),
                                   IF Truthy(f.loc.transactionDate)
                                   THEN TimestampFromDate(NewDate(f.loc.transactionDate))
                                   ELSE Ts(now)),
                          "manual", f.loc.amount, f.loc.transactionDate)
                /\ frames' = [frames EXCEPT ![t] = (@ \ {f}) \cup
                                 {Frame("handleManualSubmit", "addDoc", f.loc)}]
                /\ UNCHANGED busy
           ELSE /\ frames' = [frames EXCEPT ![t] = @ \ {f}]
                /\ busy' = [busy EXCEPT ![t].isSubmitting = FALSE]
                /\ UNCHANGED <<transactions, entered>>
        /\ UNCHANGED <<probe, worldVars, localStorage, profile, imported, user, encryptionKey,
                       isEncryptionInitialized, listeners, shown>>

\* addDoc has settled: the form is reset
SubmitDone ==
    LET t == "add" IN
    \E f \in frames[t] :
        /\ f.fn = "handleManualSubmit" /\ f.pc = "addDoc"
        /\ frames' = [frames EXCEPT ![t] = @ \ {f}]
        /\ busy' = [busy EXCEPT ![t].isSubmitting = FALSE]
        /\ UNCHANGED <<probe, worldVars, storeVars, user, encryptionKey,
                       isEncryptionInitialized, listeners, shown>>

\* the import button is enabled only when isEncryptionInitialized, a file is
\* selected and no import runs; the handler returns at once without a user or
\* a key; otherwise it runs to the await of selectedFile.text()
handleCSVImport ==
    LET t == "add" IN
    /\ ~busy[t].isImporting /\ isEncryptionInitialized[t]
    /\ user[t] # NoUser /\ encryptionKey[t] # Null
    /\ CanSpawn(t)
    /\ \E file \in CsvFiles :
          /\ TotalDocs + PendingDocs(t) + Len(file.rows) <= MaxDocs
          /\ frames' = [frames EXCEPT ![t] = @ \cup
                        {Frame("handleCSVImport", "text",
                               [file |-> file, i |-> 0, importedCount |-> 0,
                                errorCount |-> 0, amountEncrypted |-> Undefined,
                                pending |-> Ok(Undefined)])}]
    /\ busy' = [busy EXCEPT ![t].isImporting = TRUE]
    /\ UNCHANGED <<probe, worldVars, storeVars, user, encryptionKey,
                   isEncryptionInitialized, listeners, shown>>

\* the loop of handleCSVImport from row i to its next await: without a key
\* encryptData throws for this row and for every later one (each counted in
\* errorCount), and the handler ends.  Sets frames and busy.
RECURSIVE CsvFrom(_, _, _)
CsvFrom(t, loc, i) ==
    IF i > Len(loc.file.rows)
    THEN /\ frames' = [frames EXCEPT ![t] = {f \in @ : f.fn # "handleCSVImport"}]
         /\ busy' = [busy EXCEPT ![t].isImporting = FALSE]
    ELSE IF encryptionKey[t] = Null
    THEN CsvFrom(t, [loc EXCEPT !.errorCount = @ + 1], i + 1)
    ELSE \E iv \in PageIvs :
            /\ frames' = [frames EXCEPT ![t] =
                             {f \in @ : f.fn # "handleCSVImport"} \cup
                             {Frame("handleCSVImport", "encryptAmount",
                                    [loc EXCEPT !.i = i,
                                                !.pending =
                                                    encryptData(encryptionKey[t],
                                                        OrElse(RowField(loc.file, i, "amount"),
                                                               Str(<<"0">>)), iv)])}]
            /\ UNCHANGED busy

\* selectedFile.text() has settled: a file without a required column ends the
\* handler; otherwise the loop starts
CsvTextRead ==
    LET t == "add" IN
    \E f \in frames[t] :
        /\ f.fn = "handleCSVImport" /\ f.pc = "text"
        /\ IF \E h \in {"description", "amount", "date"} :
                  \A c \in 1..Len(f.loc.file.headers) : f.loc.file.headers[c] # h
           THEN /\ frames' = [frames EXCEPT ![t] = @ \ {f}]
                /\ busy' = [busy EXCEPT ![t].isImporting = FALSE]
           ELSE CsvFrom(t, f.loc, 1)
        /\ UNCHANGED <<probe, worldVars, storeVars, user, encryptionKey,
                       isEncryptionInitialized, listeners, shown>>

\* encryptData of the row's amount has settled; encryptData of its date (or of
\* today's date) is called; a throw counts the row as failed
CsvAmountEncrypted ==
    LET t == "add" IN
    \E f \in frames[t] :
        /\ f.fn = "handleCSVImport" /\ f.pc = "encryptAmount"
        /\ IF encryptionKey[t] = Null
           THEN CsvFrom(t, [f.loc EXCEPT !.errorCount = @ + 1], f.loc.i + 1)
           ELSE \E iv \in PageIvs :
                   /\ frames' = [frames EXCEPT ![t] = (@ \ {f}) \cup
                                    {Frame("handleCSVImport", "encryptDate",
                                           [f.loc EXCEPT
                                               !.amountEncrypted = f.loc.pending.v,
                                               !.pending =
                                                   encryptData(encryptionKey[t],
                                                       OrElse(RowField(f.loc.file, f.loc.i, "date"),
                                                              IsoDate(now)), iv)])}]
                   /\ UNCHANGED busy
        /\ UNCHANGED <<probe, worldVars, storeVars, user, encryptionKey,
                       isEncryptionInitialized, listeners, shown>>

\* encryptData of the row's date has settled; the document is built (user.uid
\* throws without a user) and, when its description is non-empty and its
\* amountPlain is a number, written; otherwise the row is counted as failed
CsvDateEncrypted ==
    LET t == "add" IN
    \E f \in frames[t] :
        /\ f.fn = "handleCSVImport" /\ f.pc = "encryptDate"
        /\ LET amountCell == RowField(f.loc.file, f.loc.i, "amount")
               dateCell == RowField(f.loc.file, f.loc.i, "date")
               description == OrElse(RowField(f.loc.file, f.loc.i, "description"),
                                     ImportedTransaction)
               amountPlain == OrElse(parseFloat(amountCell), Num(0))
           IN IF user[t] # NoUser /\ Truthy(description) /\ amountPlain.t # "NaN"
              THEN /\ AddDoc(user[t],
                             Document(user[t], description, f.loc.amountEncrypted,
                                      f.loc.pending.v, amountPlain,
                                      IF Truthy(dateCell) THEN TimestampFromDate(NewDate(dateCell))
                                      ELSE Ts(now)),
                             "csv", amountCell, dateCell)
                   /\ frames' = [frames EXCEPT ![t] = (@ \ {f}) \cup
                                    {Frame("handleCSVImport", "addDoc", f.loc)}]
                   /\ UNCHANGED busy
              ELSE /\ CsvFrom(t, [f.loc EXCEPT !.errorCount = @ + 1], f.loc.i + 1)
                   /\ UNCHANGED <<transactions, entered>>
        /\ UNCHANGED <<probe, worldVars, localStorage, profile, imported, user, encryptionKey,
                       isEncryptionInitialized, listeners, shown>>

\* the row's addDoc has settled: it is counted as imported, the loop goes on
CsvRowAdded ==
    LET t == "add" IN
    \E f \in frames[t] :
        /\ f.fn = "handleCSVImport" /\ f.pc = "addDoc"
        /\ CsvFrom(t, [f.loc EXCEPT !.importedCount = @ + 1], f.loc.i + 1)
        /\ UNCHANGED <<probe, worldVars, storeVars, user, encryptionKey,
                       isEncryptionInitialized, listeners, shown>>


(***************************************************************************)
(* The Transactions page: loadTransactions and its snapshot callback.      *)
(***************************************************************************)
\* the documents of a snapshot: {id: doc.id, ...doc.data()}
WithIds(docs) ==
    [i \in 1..Len(docs) |->
        [id |-> Str(NatToStr(i)),
         userId |-> docs[i].userId,
         description |-> docs[i].description,
         amount |-> docs[i].amount,
         amountIv |-> docs[i].amountIv,
         date |-> docs[i].date,
         dateIv |-> docs[i].dateIv,
         amountPlain |-> docs[i].amountPlain,
         datePlain |-> docs[i].datePlain]]

\* orderBy('datePlain', 'desc')
RECURSIVE InsertByDate(_, _)
InsertByDate(sorted, d) ==
    IF sorted = <<>> THEN <<d>>
    ELSE IF Head(sorted).datePlain.ms >= d.datePlain.ms
         THEN <<Head(sorted)>> \o InsertByDate(Tail(sorted), d)
         ELSE <<d>> \o sorted
RECURSIVE OrderByDateDesc(_)
OrderByDateDesc(docs) ==
    IF docs = <<>> THEN <<>>
    ELSE InsertByDate(OrderByDateDesc(SubSeq(docs, 1, Len(docs) - 1)), docs[Len(docs)])

QuerySnapshot(u) == OrderByDateDesc(WithIds(transactions[u]))

\* decryptData suspends at crypto.subtle.decrypt; without a key, or with text
\* atob rejects, it has thrown before
Suspends(key, encryptedData, iv) ==
    key # Null /\ Atob(encryptedData).ok /\ Atob(iv).ok

\* the loop of the snapshot callback from record i to its next await or to
\* its end, under the key the page holds: the frame it is suspended in, or
\* the finished list
RECURSIVE DecryptFrom(_, _, _, _, _, _)
DecryptFrom(key, raw, i, half, amt, acc) ==
    IF i > Len(raw)
    THEN [pc |-> "done", raw |-> raw, i |-> i, amt |-> Undefined, acc |-> acc,
          pending |-> Ok(Undefined)]
    ELSE IF half = "amount"
    THEN IF Truthy(raw[i].amount) /\ Truthy(raw[i].amountIv)
            /\ Suspends(key, raw[i].amount, raw[i].amountIv)
         THEN [pc |-> "amount", raw |-> raw, i |-> i, amt |-> Undefined, acc |-> acc,
               pending |-> decryptData(key, raw[i].amount, raw[i].amountIv)]
         ELSE DecryptFrom(key, raw, i, "date", decryptAmount(key, raw[i]).v, acc)
    ELSE IF Truthy(raw[i].date) /\ Truthy(raw[i].dateIv)
            /\ Suspends(key, raw[i].date, raw[i].dateIv)
         THEN [pc |-> "date", raw |-> raw, i |-> i, amt |-> amt, acc |-> acc,
               pending |-> decryptData(key, raw[i].date, raw[i].dateIv)]
         ELSE DecryptFrom(key, raw, i + 1, "amount", Undefined,
                          Append(acc, decryptTransactionFrom(
                                          raw[i], Ok(amt), decryptDate(key, raw[i])).v))

\* the callback goes on from where DecryptFrom stopped.  Sets frames and shown.
SnapshotGoesOn(t, rest, st) ==
    IF st.pc = "done"
    THEN /\ frames' = [frames EXCEPT ![t] = rest]
         /\ shown' = [shown EXCEPT ![t].list = st.acc, ![t].isLoading = FALSE]
    ELSE /\ frames' = [frames EXCEPT ![t] = rest \cup
                          {Frame("onSnapshot", st.pc,
                                 [raw |-> st.raw, i |-> st.i, amt |-> st.amt,
                                  acc |-> st.acc, pending |-> st.pending])}]
         /\ UNCHANGED shown

\* a listener of the page delivers the current documents of its query
Snapshot(t) ==
    \E u \in Users :
        /\ listeners[t][u] # NoListener
        /\ listeners[t][u] # Len(transactions[u])
        /\ authUser = u
        /\ CanSpawn(t)
        /\ listeners' = [listeners EXCEPT ![t][u] = Len(transactions[u])]
        /\ SnapshotGoesOn(t, frames[t],
                          DecryptFrom(encryptionKey[t], QuerySnapshot(u), 1, "amount",
                                      Undefined, <<>>))
        /\ UNCHANGED <<probe, worldVars, storeVars, user, encryptionKey,
                       isEncryptionInitialized, busy>>

\* decryptData of a record's amount has settled
SnapshotAmountSettled(t) ==
    \E f \in frames[t] :
        /\ f.fn = "onSnapshot" /\ f.pc = "amount"
        /\ SnapshotGoesOn(t, frames[t] \ {f},
                          DecryptFrom(encryptionKey[t], f.loc.raw, f.loc.i, "date",
                                      AmountAfter(f.loc.raw[f.loc.i], f.loc.pending),
                                      f.loc.acc))
        /\ UNCHANGED <<probe, worldVars, storeVars, user, encryptionKey,
                       isEncryptionInitialized, busy, listeners>>

\* decryptData of a record's date has settled
SnapshotDateSettled(t) ==
    \E f \in frames[t] :
        /\ f.fn = "onSnapshot" /\ f.pc = "date"
        /\ SnapshotGoesOn(t, frames[t] \ {f},
                          DecryptFrom(encryptionKey[t], f.loc.raw, f.loc.i + 1, "amount",
                                      Undefined,
                                      Append(f.loc.acc,
                                             [f.loc.raw[f.loc.i] EXCEPT
                                                 !.amount = f.loc.amt,
                                                 !.date = DateAfter(f.loc.raw[f.loc.i],
                                                                    f.loc.pending)])))
        /\ UNCHANGED <<probe, worldVars, storeVars, user, encryptionKey,
                       isEncryptionInitialized, busy, listeners>>


(***************************************************************************)
(* The cipher and codec harness: the pure functions applied to inputs      *)
(* drawn from bounded sets.                                                *)
(***************************************************************************)
\* what the write paths hand to encryptData: the number of the amount input,
\* a CSV cell, a date string
ProbePlaintexts ==
    {Num(42), Num(0 - 7), Str(<<"4", "2">>), Str(<<"x">>), Str(<<"3">>), Str(<<" ", "5">>)}

SessionKeys == RandomKeys \cup {Null}

\* the (ciphertext, iv) halves a stored record can carry for one field
EnvelopeShapes(plaintexts) ==
    LET sealed == {encryptData(k, p, iv).v : k \in RandomKeys, p \in plaintexts, iv \in Ivs}
    IN {[c |-> e.encrypted, iv |-> e.iv] : e \in sealed}
       \cup {[c |-> e.encrypted, iv |-> Undefined] : e \in sealed}
       \cup {[c |-> e.encrypted, iv |-> Str(<<"-">>)] : e \in sealed}
       \cup {[c |-> Undefined, iv |-> Undefined],
             [c |-> Num(42), iv |-> Undefined],
             [c |-> Ts(3), iv |-> Undefined],
             [c |-> Num(42), iv |-> Num(1)],
             [c |-> Str(<<"x", "x">>), iv |-> Str(<<"x", "x">>)],
             [c |-> Str(<<"-">>), iv |-> Btoa(IvBytes(1))]}

RecordShapes ==
    {[id |-> Str(<<"1">>),
      amount |-> a.c, amountIv |-> a.iv, date |-> d.c, dateIv |-> d.iv,
      amountPlain |-> ap, datePlain |-> dp] :
        a \in EnvelopeShapes({Num(42), Str(<<"x">>)}),
        d \in EnvelopeShapes({Str(<<"3">>)}),
        ap \in {Undefined, Num(42), Str(<<"x">>)},
        dp \in {Undefined, Ts(2)}}

ProbeIdle ==
    [pc |-> "idle", key |-> Null, wkey |-> Null, plain |-> Undefined,
     env |-> Undefined, tamper |-> "none", rec |-> Undefined, out |-> Ok(Undefined)]

\* encryptData under key k of plaintext p
ProbeEncrypt ==
    /\ probe.pc = "idle"
    /\ \E k \in RandomKeys, p \in ProbePlaintexts, iv \in Ivs :
          probe' = [probe EXCEPT !.pc = "sealed", !.key = k, !.wkey = k, !.plain = p,
                                 !.env = encryptData(k, p, iv).v]
    /\ UNCHANGED <<worldVars, storeVars, pageVars>>

\* the stored envelope is damaged: a flipped ciphertext bit, the iv of another
\* envelope, a ciphertext that is not base64, an iv that is not base64
ProbeTamper ==
    /\ probe.pc = "sealed"
    /\ probe.tamper = "none"
    /\ \/ probe' = [probe EXCEPT !.tamper = "ciphertext",
                                 !.env.encrypted.bytes.intact = FALSE]
       \/ \E iv \in Ivs :
             /\ Btoa(iv) # probe.env.iv
             /\ probe' = [probe EXCEPT !.tamper = "iv", !.env.iv = Btoa(iv)]
       \/ probe' = [probe EXCEPT !.tamper = "base64", !.env.encrypted = Str(<<"-">>)]
       \/ probe' = [probe EXCEPT !.tamper = "base64iv", !.env.iv = Str(<<"x">>)]
    /\ UNCHANGED <<worldVars, storeVars, pageVars>>

\* the session comes to hold another key, or none
ProbeRekey ==
    /\ probe.pc = "sealed"
    /\ \E k \in SessionKeys : k # probe.key /\ probe' = [probe EXCEPT !.key = k]
    /\ UNCHANGED <<worldVars, storeVars, pageVars>>

\* decryptData of the envelope under the session key
ProbeDecrypt ==
    /\ probe.pc = "sealed"
    /\ probe' = [probe EXCEPT !.pc = "opened",
                              !.out = decryptData(probe.key, probe.env.encrypted,
                                                  probe.env.iv)]
    /\ UNCHANGED <<worldVars, storeVars, pageVars>>

\* decryptTransaction of a stored record under the session key
ProbeRead ==
    /\ probe.pc = "idle"
    /\ \E k \in SessionKeys, rec \in RecordShapes :
          probe' = [probe EXCEPT !.pc = "read", !.key = k, !.rec = rec,
                                 !.out = decryptTransaction(k, rec)]
    /\ UNCHANGED <<worldVars, storeVars, pageVars>>

\* the pages before any event, in a given environment
Quiet(e) ==
    /\ env = e
    /\ now = 0
    /\ authUser = NoUser
    /\ signIns = 0
    /\ localStorage = [u \in Users |-> Null]
    /\ transactions = [u \in Users |-> <<>>]
    /\ entered = [u \in Users |-> <<>>]
    /\ imported = [t \in Tabs |-> Null]
    /\ user = [t \in Tabs |-> NoUser]
    /\ encryptionKey = [t \in Tabs |-> Null]
    /\ isEncryptionInitialized = [t \in Tabs |-> FALSE]
    /\ busy = [t \in Tabs |-> Idle]
    /\ frames = [t \in Tabs |-> {}]
    /\ listeners = [t \in Tabs |-> [u \in Users |-> NoListener]]
    /\ shown = [t \in Tabs |-> NoDisplay]

InitCodec ==
    /\ probe = ProbeIdle
    /\ Quiet([secret |-> Undefined, storage |-> "ok"])
    /\ profile = [u \in Users |-> NoBackup]
NextCodec ==
    \/ ProbeEncrypt
    \/ ProbeTamper
    \/ ProbeRekey
    \/ ProbeDecrypt
    \/ ProbeRead
SpecCodec == InitCodec /\ [][NextCodec]_vars

(***************************************************************************)
(* The pages in every environment.  A user may have used another device    *)
(* before: the remote profile may already hold a key backup.               *)
(***************************************************************************)
Backups ==
    {NoBackup} \cup {[encryptionKey |-> exportKey(k), keyBackupDate |-> Ts(0)] :
                        k \in {CryptoKey([kind |-> "random", id |-> 1]),
                               DerivedKey(Str(<<"s">>), "A")}}

Init ==
    /\ probe = ProbeIdle
    /\ \E e \in Envs : Quiet(e)
    /\ \E b \in Backups :
          /\ env.storage # "ok" => b = NoBackup
          /\ profile = [u \in Users |-> IF u = "A" THEN b ELSE NoBackup]

\* the Add-Data page alone
NextAdd ==
    \/ \E u \in Users : SignIn(u, {"add"})
    \/ SignOut({"add"})
    \/ AuthStateChangedAdd
    \/ Tick
    \/ ImportKeySettled("add")
    \/ MasterKeySettled("add")
    \/ KeyExported("add")
    \/ BackupSettled("add")
    \/ handleManualSubmit
    \/ SubmitAmountEncrypted
    \/ SubmitDateEncrypted
    \/ SubmitDone
    \/ handleCSVImport
    \/ CsvTextRead
    \/ CsvAmountEncrypted
    \/ CsvDateEncrypted
    \/ CsvRowAdded

SpecAdd == Init /\ [][NextAdd]_vars

(***************************************************************************)
(* The Transactions page alone, opened by user A or B in a browser whose   *)
(* cache may hold A's key, against a store that may hold a record A wrote  *)
(* on the Add-Data page under that key.                                    *)
(***************************************************************************)
WritingKeys == {CryptoKey([kind |-> "random", id |-> 1]), DerivedKey(Str(<<"s">>), "A")}

\* the record handleManualSubmit writes for amount 42 and date "3" under key k
StoredRecord(k) ==
    Document("A", FormDescription,
             encryptData(k, Num(42), IvBytes(1)).v,
             encryptData(k, Str(<<"3">>), IvBytes(1)).v,
             parseFloat(Num(42)),
             TimestampFromDate(NewDate(Str(<<"3">>))))

InitTx ==
    /\ probe = ProbeIdle
    /\ \E e \in Envs :
          /\ env = e
          /\ now = 0
          /\ authUser = NoUser
          /\ signIns = 0
    /\ \E k \in WritingKeys, cached \in BOOLEAN, written \in BOOLEAN :
          /\ k.raw.kind = "pbkdf2" => env.secret # Undefined
          /\ localStorage = [u \in Users |->
                                IF u = "A" /\ cached THEN exportKey(k) ELSE Null]
          /\ transactions = [u \in Users |->
                                IF u = "A" /\ written THEN <<StoredRecord(k)>> ELSE <<>>]
          /\ entered = [u \in Users |->
                           IF u = "A" /\ written
                           THEN <<[by |-> "manual", amount |-> Num(42),
                                   date |-> Str(<<"3">>)]>>
                           ELSE <<>>]
          /\ profile = [u \in Users |->
                           IF u = "A" /\ written
                           THEN [encryptionKey |-> exportKey(k), keyBackupDate |-> Ts(0)]
                           ELSE NoBackup]
    /\ imported = [t \in Tabs |-> Null]
    /\ user = [t \in Tabs |-> NoUser]
    /\ encryptionKey = [t \in Tabs |-> Null]
    /\ isEncryptionInitialized = [t \in Tabs |-> FALSE]
    /\ busy = [t \in Tabs |-> Idle]
    /\ frames = [t \in Tabs |-> {}]
    /\ listeners = [t \in Tabs |-> [u \in Users |-> NoListener]]
    /\ shown = [t \in Tabs |-> NoDisplay]

NextTx ==
    \/ \E u \in Users : SignIn(u, {"tx"})
    \/ SignOut({"tx"})
    \/ AuthStateChangedTx
    \/ CurrencyLoaded("tx")
    \/ ImportKeySettled("tx")
    \/ MasterKeySettled("tx")
    \/ KeyExported("tx")
    \/ Snapshot("tx")
    \/ SnapshotAmountSettled("tx")
    \/ SnapshotDateSettled("tx")

SpecTx == InitTx /\ [][NextTx]_vars

\* the Transactions page while another session of the signed-in user adds
\* records: handleManualSubmit's addDoc reaches the collection the page
\* listens to, and every change is delivered as a new snapshot
TransactionAdded ==
    \E k \in WritingKeys, date \in {Str(<<"3">>), Str(<<"5">>)} :
        /\ authUser \in Users
        /\ k.raw.kind = "pbkdf2" => env.secret # Undefined
        /\ Len(transactions[authUser]) < MaxSnapDocs
        /\ transactions' = [transactions EXCEPT ![authUser] =
               Append(@, Document(authUser, FormDescription,
                                  encryptData(k, Num(42), IvBytes(1)).v,
                                  encryptData(k, date, IvBytes(1)).v,
                                  parseFloat(Num(42)),
                                  TimestampFromDate(NewDate(date))))]
        /\ entered' = [entered EXCEPT ![authUser] =
               Append(@, [by |-> "manual", amount |-> Num(42), date |-> date])]
        /\ UNCHANGED <<probe, worldVars, localStorage, profile, imported, pageVars>>

\* one session of the page: nobody signs out while it listens
NextSnap ==
    \/ \E u \in Users : SignIn(u, {"tx"})
    \/ AuthStateChangedTx
    \/ CurrencyLoaded("tx")
    \/ ImportKeySettled("tx")
    \/ MasterKeySettled("tx")
    \/ KeyExported("tx")
    \/ Snapshot("tx")
    \/ SnapshotAmountSettled("tx")
    \/ SnapshotDateSettled("tx")
    \/ TransactionAdded

SpecSnap == InitTx /\ [][NextSnap]_vars

(***************************************************************************)
(* getMasterKey on its own: two calls, in one session or in two, and an    *)
(* envelope sealed under the first call's key and opened under the         *)
(* second's.                                                               *)
(***************************************************************************)
\* a getMasterKey that generates a key whatever the secret
getMasterKeyRandom(secret, uid) == RandomKeys

\* the keys a call of getMasterKey can return, for the configured secret and
\* the uid of the page's user (NoUser: user?.uid is undefined): the PBKDF2
\* key of envKey + uid when envKey is truthy, else a generated key
getMasterKey(secret, uid) ==
    IF Truthy(secret) THEN {DerivedKey(secret, uid)} ELSE RandomKeys

\* VITE_PUBLIC_ENCRYPT_KEY: unset, empty, or a secret
Secrets == {Undefined, Str(<<>>), Str(<<"s">>), Str(<<"s", "A">>)}

DeriveIdle ==
    [pc |-> "idle", secret |-> Undefined, uid1 |-> NoUser, uid2 |-> NoUser,
     k1 |-> Null, k2 |-> Null, plain |-> Undefined, env |-> Undefined,
     out |-> Ok(Undefined)]

DeriveFirst ==
    /\ probe.pc = "idle"
    /\ \E secret \in Secrets, uid \in Users \cup {NoUser} :
          \E k \in getMasterKey(secret, uid) :
              probe' = [probe EXCEPT !.pc = "one", !.secret = secret,
                                     !.uid1 = uid, !.k1 = k]
    /\ UNCHANGED <<worldVars, storeVars, pageVars>>

DeriveSecond ==
    /\ probe.pc = "one"
    /\ \E uid \in Users \cup {NoUser} :
          \E k \in getMasterKey(probe.secret, uid) :
              probe' = [probe EXCEPT !.pc = "two", !.uid2 = uid, !.k2 = k]
    /\ UNCHANGED <<worldVars, storeVars, pageVars>>

DeriveEncrypt ==
    /\ probe.pc = "two"
    /\ \E p \in {Num(42), Str(<<"x">>)}, iv \in Ivs :
          probe' = [probe EXCEPT !.pc = "sealed", !.plain = p,
                                 !.env = encryptData(probe.k1, p, iv).v]
    /\ UNCHANGED <<worldVars, storeVars, pageVars>>

DeriveDecrypt ==
    /\ probe.pc = "sealed"
    /\ probe' = [probe EXCEPT !.pc = "opened",
                              !.out = decryptData(probe.k2, probe.env.encrypted,
                                                  probe.env.iv)]
    /\ UNCHANGED <<worldVars, storeVars, pageVars>>

InitDerive ==
    /\ probe = DeriveIdle
    /\ Quiet([secret |-> Undefined, storage |-> "ok"])
    /\ profile = [u \in Users |-> NoBackup]

NextDerive ==
    \/ DeriveFirst
    \/ DeriveSecond
    \/ DeriveEncrypt
    \/ DeriveDecrypt

SpecDerive == InitDerive /\ [][NextDerive]_vars

(***************************************************************************)
(* encryptData called again and again under one key: the fields of a       *)
(* record, the rows of a file, one session after another.                  *)
(***************************************************************************)
\* the values crypto.getRandomValues(new Uint8Array(12)) can return: each
\* call draws anew, whatever was drawn before
getRandomValues == Ivs

CallsIdle == [key |-> Null, draws |-> <<>>, envs |-> <<>>]

\* one more call: the first fixes the key
CallEncrypt ==
    /\ Len(probe.envs) < MaxCalls
    /\ \E k \in (IF probe.key = Null THEN RandomKeys ELSE {probe.key}) :
       \E p \in {Num(42), Str(<<"3">>)}, iv \in getRandomValues :
          probe' = [key |-> k,
                    draws |-> Append(probe.draws, iv),
                    envs |-> Append(probe.envs, encryptData(k, p, iv).v)]
    /\ UNCHANGED <<worldVars, storeVars, pageVars>>

InitCalls ==
    /\ probe = CallsIdle
    /\ Quiet([secret |-> Undefined, storage |-> "ok"])
    /\ profile = [u \in Users |-> NoBackup]

NextCalls == CallEncrypt

SpecCalls == InitCalls /\ [][NextCalls]_vars

(***************************************************************************)
(* The aggregate views: the snapshot callbacks of the Dashboard page and   *)
(* of the Analytics page, over the documents the Add-Data page wrote.      *)
(***************************************************************************)
\* ToNumber, as Math.abs applies it: a ciphertext's base64 text is no
\* numeric literal
ToNumber(v) ==
    CASE v.t = "number" -> v
      [] v.t = "null" -> Num(0)
      [] v.t = "string" ->
            (LET u == TrimEnd(TrimStart(v.s))
                 d == IF u # <<>> /\ Head(u) = "-" THEN Tail(u) ELSE u
             IN IF u = <<>> THEN Num(0)
                ELSE IF d # <<>> /\ \A i \in 1..Len(d) : IsDigit(d[i])
                THEN parseFloatStr(u) ELSE NaN)
      [] OTHER -> NaN

MathAbs(v) ==
    LET n == ToNumber(v)
    IN IF n.t = "number" THEN Num(IF n.n < 0 THEN 0 - n.n ELSE n.n) ELSE NaN

\* sum + x of two numbers
Plus(a, b) == IF a.t = "number" /\ b.t = "number" THEN Num(a.n + b.n) ELSE NaN

\* docs.filter(t => t.type === type).reduce((sum, t) => sum + Math.abs(t.amount), 0)
RECURSIVE SumAbs(_, _)
SumAbs(docs, type) ==
    IF docs = <<>> THEN Num(0)
    ELSE LET t == docs[Len(docs)]
             sum == SumAbs(SubSeq(docs, 1, Len(docs) - 1), type)
         IN IF t.type = type THEN Plus(sum, MathAbs(t.amount)) ELSE sum

\* calculateMetrics: t.date.toDate() is called on the date field of every
\* record; a field that is no Timestamp has no such method
calculateMetrics(docs) ==
    IF \E i \in 1..Len(docs) : docs[i].date.t # "timestamp"
    THEN Throw("TypeError")
    ELSE Ok([totalIncome |-> SumAbs(docs, "income"),
             totalExpenses |-> SumAbs(docs, "expense")])

ViewsIdle ==
    [key |-> Null, docs |-> <<>>, totalTransactions |-> 0,
     totalSpent |-> Undefined, metrics |-> Ok(Undefined)]

\* handleManualSubmit to its end, for user A under the session key
ViewStore ==
    /\ Len(probe.docs) < MaxViewDocs
    /\ \E k \in (IF probe.key = Null THEN RandomKeys ELSE {probe.key}) :
       \E amount \in FormAmounts, date \in {Str(<<"3">>), Str(<<"5">>)},
          type \in {"income", "expense"}, iv \in PageIvs :
          probe' =
              [probe EXCEPT
                  !.key = k,
                  !.docs = Append(@,
                      Document("A", FormDescription,
                               encryptData(k, amount, iv).v,
                               encryptData(k, date, iv).v,
                               parseFloat(amount),
                               TimestampFromDate(NewDate(date)))
                          @@ [type |-> type])]
    /\ UNCHANGED <<worldVars, storeVars, pageVars>>

\* the Dashboard's onSnapshot callback for the transactions collection
DashboardSnapshot ==
    /\ probe' = [probe EXCEPT !.totalTransactions = Len(probe.docs),
                              !.totalSpent = SumAbs(probe.docs, "expense")]
    /\ UNCHANGED <<worldVars, storeVars, pageVars>>

\* the Analytics page's onSnapshot callback
AnalyticsSnapshot ==
    /\ probe' = [probe EXCEPT !.metrics = calculateMetrics(probe.docs)]
    /\ UNCHANGED <<worldVars, storeVars, pageVars>>

InitViews ==
    /\ probe = ViewsIdle
    /\ Quiet([secret |-> Undefined, storage |-> "ok"])
    /\ profile = [u \in Users |-> NoBackup]

NextViews ==
    \/ ViewStore
    \/ DashboardSnapshot
    \/ AnalyticsSnapshot

SpecViews == InitViews /\ [][NextViews]_vars

(***************************************************************************)
(* The Profile page.  Every user has the page open in a browser of their   *)
(* own; probe holds the users collection, the userIds collection and the   *)
(* component state of each page.                                           *)
(***************************************************************************)
MinIdLength == 3
MaxIdLength == 20

LowerLetters == <<"a", "b", "c", "d", "e", "f", "g", "h", "i", "j", "k", "l", "m",
                  "n", "o", "p", "q", "r", "s", "t", "u", "v", "w", "x", "y", "z">>
UpperLetters == <<"A", "B", "C", "D", "E", "F", "G", "H", "I", "J", "K", "L", "M",
                  "N", "O", "P", "Q", "R", "S", "T", "U", "V", "W", "X", "Y", "Z">>

\* String.prototype.toLowerCase
toLowerCase(v) ==
    Str([i \in 1..Len(v.s) |->
            IF \E j \in 1..26 : UpperLetters[j] = v.s[i]
            THEN LowerLetters[CHOOSE j \in 1..26 : UpperLetters[j] = v.s[i]]
            ELSE v.s[i]])

\* /^[a-zA-Z0-9_-]+$/
IdChars ==
    {LowerLetters[j] : j \in 1..26} \cup {UpperLetters[j] : j \in 1..26}
        \cup {Digits[j] : j \in 1..10} \cup {"_", "-"}

\* the checks validateUserId makes before it reads the userIds collection
BasicValidation(proposedId) ==
    /\ Truthy(proposedId) /\ Len(proposedId.s) >= MinIdLength
    /\ Len(proposedId.s) <= MaxIdLength
    /\ \A i \in 1..Len(proposedId.s) : proposedId.s[i] \in IdChars

\* generateSuggestedId: a base and a random suffix
SuggestedIds == {Str(<<"u", "_", "1">>), Str(<<"u", "_", "2">>)}
\* what the user types into the popup's field
TypedIds == {Str(<<"a", "b">>), Str(<<"U", "_", "1">>)}

ProfileNames == {Str(<<"n">>)}
Currencies == {Str(<<"I", "N", "R">>), Str(<<"U", "S", "D">>)}

NoDoc == [t |-> "missing"]
EmptyDoc ==
    [userId |-> Undefined, displayName |-> Undefined, email |-> Undefined,
     currency |-> Undefined, createdAt |-> Undefined, updatedAt |-> Undefined,
     encryptionKey |-> Undefined, keyBackupDate |-> Undefined]

\* the component state of a freshly mounted Profile page
ProfilePage ==
    [pc |-> "idle", loc |-> Undefined, loads |-> 0, saving |-> Undefined,
     userId |-> Str(<<>>), customUserId |-> Str(<<>>), hasExistingUserId |-> FALSE,
     showUserIdPopup |-> FALSE, popupUserId |-> Str(<<>>), popupError |-> "",
     isSettingUpUserId |-> FALSE, isEditing |-> FALSE, isSubmitting |-> FALSE,
     errorMessage |-> "", currency |-> Str(<<"I", "N", "R">>)]

ProfileIdle ==
    [users |-> [u \in Users |-> NoDoc], userIds |-> {},
     page |-> [u \in Users |-> ProfilePage]]

ProfileUnchanged == UNCHANGED <<env, authUser, signIns, storeVars, pageVars>>

\* the page is opened again: a new component
ProfileMount(u) ==
    /\ probe.page[u] # ProfilePage
    /\ probe.page[u].pc = "idle" /\ probe.page[u].loads = 0
    /\ probe.page[u].saving = Undefined
    /\ probe' = [probe EXCEPT !.page[u] = ProfilePage]
    /\ UNCHANGED now /\ ProfileUnchanged

\* updateUserInfo with the signed-in user, from onMount and from the
\* onAuthStateChanged callback: loadUserPreferences runs to its getDoc
updateUserInfo(u) ==
    /\ probe.page[u].loads < MaxLoads
    /\ probe' = [probe EXCEPT !.page[u].loads = @ + 1]
    /\ UNCHANGED now /\ ProfileUnchanged

\* the getDoc of loadUserPreferences has settled
LoadSettled(u) ==
    LET pg == probe.page[u]
        userData == probe.users[u]
        existing == userData # NoDoc /\ Truthy(userData.userId)
                        /\ userData.userId # Str(<<u>>)
    IN
    /\ pg.loads > 0
    /\ \E failed \in BOOLEAN, suggestion \in SuggestedIds :
          probe' = [probe EXCEPT !.page[u] =
              IF failed
              THEN [pg EXCEPT !.loads = @ - 1, !.showUserIdPopup = TRUE,
                              !.popupUserId = suggestion]
              ELSE IF userData = NoDoc
              THEN [pg EXCEPT !.loads = @ - 1, !.showUserIdPopup = TRUE,
                              !.popupUserId = suggestion,
                              !.hasExistingUserId = FALSE]
              ELSE [pg EXCEPT !.loads = @ - 1,
                              !.currency = OrElse(userData.currency, Str(<<"I", "N", "R">>)),
                              !.userId = OrElse(userData.userId, Str(<<>>)),
                              !.customUserId = OrElse(userData.userId, Str(<<>>)),
                              !.hasExistingUserId = existing,
                              !.showUserIdPopup = IF existing THEN @ ELSE TRUE,
                              !.popupUserId = IF existing THEN @ ELSE suggestion]]
    /\ UNCHANGED now /\ ProfileUnchanged

\* the user edits the popup's field or asks for a new suggestion
PopupInput(u) ==
    /\ probe.page[u].showUserIdPopup /\ ~probe.page[u].isSettingUpUserId
    /\ \E id \in TypedIds \cup SuggestedIds :
          /\ id # probe.page[u].popupUserId
          /\ probe' = [probe EXCEPT !.page[u].popupUserId = id]
    /\ UNCHANGED now /\ ProfileUnchanged

\* Complete Setup: setupUserProfile to the getDoc of validateUserId, or to
\* its end when the basic validation rejects the text
setupUserProfile(u) ==
    LET pg == probe.page[u] IN
    /\ pg.showUserIdPopup /\ ~pg.isSettingUpUserId
    /\ Truthy(Trim(pg.popupUserId))
    /\ probe' = [probe EXCEPT !.page[u] =
          IF BasicValidation(pg.popupUserId)
          THEN [pg EXCEPT !.isSettingUpUserId = TRUE, !.popupError = "",
                          !.pc = "validate", !.loc = pg.popupUserId]
          ELSE [pg EXCEPT !.popupError = "format"]]
    /\ UNCHANGED now /\ ProfileUnchanged

\* the getDoc of validateUserId has settled; when the id is free the setDoc
\* of the user's document is issued with the text the field holds now
ValidateSettled(u) ==
    LET pg == probe.page[u] IN
    /\ pg.pc = "validate"
    /\ \E failed \in BOOLEAN :
          probe' = [probe EXCEPT !.page[u] =
              IF failed
              THEN [pg EXCEPT !.pc = "idle", !.loc = Undefined,
                              !.popupError = "check", !.isSettingUpUserId = FALSE]
              ELSE IF \E d \in probe.userIds : d.id = toLowerCase(pg.loc)
              THEN [pg EXCEPT !.pc = "idle", !.loc = Undefined,
                              !.popupError = "taken", !.isSettingUpUserId = FALSE]
              ELSE [pg EXCEPT !.pc = "setUser",
                              !.loc = [EmptyDoc EXCEPT
                                          !.userId = pg.popupUserId,
                                          !.displayName = Str(<<u>>),
                                          !.email = Str(<<u, "@">>),
                                          !.currency = Str(<<"I", "N", "R">>),
                                          !.createdAt = Ts(now),
                                          !.updatedAt = Ts(now)]]]
    /\ UNCHANGED now /\ ProfileUnchanged

\* setDoc(doc(db, 'users', uid), {...}) without merge has settled: the
\* document is what was passed; the reservation is issued next
UserDocSettled(u) ==
    LET pg == probe.page[u] IN
    /\ pg.pc = "setUser"
    /\ \E stored \in BOOLEAN :
          probe' = IF stored
                   THEN [probe EXCEPT !.users[u] = pg.loc,
                                      !.page[u].pc = "reserve",
                                      !.page[u].loc = toLowerCase(pg.popupUserId)]
                   ELSE [probe EXCEPT !.page[u].pc = "idle",
                                      !.page[u].loc = Undefined,
                                      !.page[u].popupError = "write",
                                      !.page[u].isSettingUpUserId = FALSE]
    /\ UNCHANGED now /\ ProfileUnchanged

\* setDoc(doc(db, 'userIds', id), {uid, createdAt}) has settled
ReserveSettled(u) ==
    LET pg == probe.page[u] IN
    /\ pg.pc = "reserve"
    /\ \E stored \in BOOLEAN :
          probe' = IF stored
                   THEN [probe EXCEPT
                            !.userIds = {d \in @ : d.id # pg.loc}
                                            \cup {[id |-> pg.loc, uid |-> u]},
                            !.page[u] = [pg EXCEPT
                                !.pc = "idle", !.loc = Undefined,
                                !.userId = pg.popupUserId,
                                !.customUserId = pg.popupUserId,
                                !.currency = Str(<<"I", "N", "R">>),
                                !.hasExistingUserId = TRUE,
                                !.showUserIdPopup = FALSE,
                                !.isSettingUpUserId = FALSE]]
                   ELSE [probe EXCEPT !.page[u].pc = "idle",
                                      !.page[u].loc = Undefined,
                                      !.page[u].popupError = "write",
                                      !.page[u].isSettingUpUserId = FALSE]
    /\ UNCHANGED now /\ ProfileUnchanged

\* the Edit button
EditProfile(u) ==
    /\ ~probe.page[u].showUserIdPopup /\ ~probe.page[u].isEditing
    /\ probe' = [probe EXCEPT !.page[u].isEditing = TRUE]
    /\ UNCHANGED now /\ ProfileUnchanged

cancelEdit(u) ==
    /\ ~probe.page[u].showUserIdPopup /\ probe.page[u].isEditing
    /\ probe' = [probe EXCEPT !.page[u].isEditing = FALSE,
                              !.page[u].customUserId = probe.page[u].userId,
                              !.page[u].errorMessage = ""]
    /\ UNCHANGED now /\ ProfileUnchanged

\* saveProfile to its updateDoc
saveProfile(u) ==
    LET pg == probe.page[u] IN
    /\ ~pg.showUserIdPopup /\ pg.isEditing /\ ~pg.isSubmitting
    /\ \E newUsername \in ProfileNames, newCurrency \in Currencies :
          probe' = [probe EXCEPT !.page[u] =
              [pg EXCEPT !.isSubmitting = TRUE, !.errorMessage = "",
                         !.saving = [displayName |-> newUsername,
                                     currency |-> newCurrency,
                                     updatedAt |-> Ts(now)]]]
    /\ UNCHANGED now /\ ProfileUnchanged

\* updateDoc has settled: it changes the fields passed and fails on a
\* document that does not exist
SaveSettled(u) ==
    LET pg == probe.page[u] IN
    /\ pg.saving # Undefined
    /\ \E stored \in BOOLEAN :
          probe' = IF stored /\ probe.users[u] # NoDoc
                   THEN [probe EXCEPT
                            !.users[u] = [@ EXCEPT
                                !.displayName = pg.saving.displayName,
                                !.currency = pg.saving.currency,
                                !.updatedAt = pg.saving.updatedAt],
                            !.page[u] = [pg EXCEPT
                                !.saving = Undefined, !.isSubmitting = FALSE,
                                !.currency = pg.saving.currency,
                                !.isEditing = FALSE]]
                   ELSE [probe EXCEPT
                            !.page[u] = [pg EXCEPT
                                !.saving = Undefined, !.isSubmitting = FALSE,
                                !.errorMessage = IF stored THEN "not-found"
                                                 ELSE "failed"]]
    /\ UNCHANGED now /\ ProfileUnchanged

\* storeEncryptionKeyInFirestore of the user's Add-Data page: setDoc with
\* merge: true
KeyBackupWritten(u) ==
    LET keyString == exportKey(CryptoKey([kind |-> "random", id |-> 1])) IN
    /\ IF probe.users[u] = NoDoc THEN TRUE
       ELSE probe.users[u].encryptionKey # keyString
    /\ probe' = [probe EXCEPT !.users[u] =
          [(IF @ = NoDoc THEN EmptyDoc ELSE @) EXCEPT
              !.encryptionKey = keyString,
              !.keyBackupDate = Ts(now),
              !.updatedAt = Ts(now)]]
    /\ UNCHANGED now /\ ProfileUnchanged

InitProfile ==
    /\ probe = ProfileIdle
    /\ Quiet([secret |-> Undefined, storage |-> "ok"])
    /\ profile = [u \in Users |-> NoBackup]

\* one user's page with all its operations, and the Add-Data page's backup
NextProfile ==
    \/ ProfileMount("A")
    \/ updateUserInfo("A")
    \/ LoadSettled("A")
    \/ PopupInput("A")
    \/ setupUserProfile("A")
    \/ ValidateSettled("A")
    \/ UserDocSettled("A")
    \/ ReserveSettled("A")
    \/ EditProfile("A")
    \/ cancelEdit("A")
    \/ saveProfile("A")
    \/ SaveSettled("A")
    \/ KeyBackupWritten("A")

SpecProfile == InitProfile /\ [][NextProfile]_vars

\* two first-time users, each on a page of their own that has loaded their
\* preferences, found no document and shows the popup with a suggestion
InitUserIds ==
    /\ \E suggestion \in [Users -> SuggestedIds] :
          probe = [ProfileIdle EXCEPT !.page =
                      [u \in Users |-> [ProfilePage EXCEPT
                                           !.showUserIdPopup = TRUE,
                                           !.popupUserId = suggestion[u]]]]
    /\ Quiet([secret |-> Undefined, storage |-> "ok"])
    /\ profile = [u \in Users |-> NoBackup]

NextUserIds ==
    \E u \in Users :
        \/ PopupInput(u)
        \/ setupUserProfile(u)
        \/ ValidateSettled(u)
        \/ UserDocSettled(u)
        \/ ReserveSettled(u)

SpecUserIds == InitUserIds /\ [][NextUserIds]_vars

(***************************************************************************)
(* The Login and Dashboard pages and their redirects.  probe holds the     *)
(* browser: the page loaded, a navigation under way, the cookies and what  *)
(* the page's authentication client has done; authUser is the session the  *)
(* authentication provider holds.                                          *)
(***************************************************************************)
\* user.accessToken
AccessToken(u) == Str(<<"t", u>>)

\* cookie.trim().split('=') destructured into [key, val]: the value ends at
\* the next "="
RECURSIVE UpToEquals(_)
UpToEquals(s) ==
    IF s = <<>> \/ Head(s) = "=" THEN <<>> ELSE <<Head(s)>> \o UpToEquals(Tail(s))

getCookieValue(cookies, name) ==
    IF cookies[name] = Null THEN Null ELSE Str(UpToEquals(cookies[name].s))

\* document.cookie = `${name}=${value}; expires=...; path=/`
setValidationCookie(cookies, name, value) ==
    [cookies EXCEPT ![name] = Str(ToStringJS(value))]

CookieNames == {"accessToken", "userLoggedIn"}
CookieJars ==
    [CookieNames ->
        {Null, Str(<<>>), Str(<<"t", "r", "u", "e">>), Str(<<"f", "a", "l", "s", "e">>)}
            \cup {AccessToken(u) : u \in Users}]

\* a page that has just been loaded: nothing of it has run yet
Loaded(location, cookies) ==
    [location |-> location, navigating |-> "none", cookies |-> cookies,
     mounted |-> FALSE, restored |-> FALSE, listening |-> FALSE, notified |-> FALSE]

NavUnchanged == UNCHANGED <<env, now, authUser, signIns, storeVars, pageVars>>

\* window.location.href = target has been assigned: the browser loads the
\* target page and the current page is gone
PageLoad ==
    /\ probe.navigating # "none"
    /\ probe' = Loaded(probe.navigating, probe.cookies)
    /\ NavUnchanged

\* the page's authentication client has read the persisted session:
\* currentUser is set from here on
AuthRestored ==
    /\ ~probe.restored
    /\ probe' = [probe EXCEPT !.restored = TRUE]
    /\ NavUnchanged

\* onMount of the Login page
LoginMount ==
    /\ probe.location = "/Login" /\ ~probe.mounted
    /\ probe' = [probe EXCEPT
          !.mounted = TRUE, !.listening = TRUE,
          !.navigating = IF Truthy(getCookieValue(probe.cookies, "accessToken"))
                         THEN "/Dashboard" ELSE @]
    /\ NavUnchanged

\* the onAuthStateChanged callback of the Login page
LoginAuthStateChanged ==
    /\ probe.location = "/Login" /\ probe.listening /\ probe.restored
    /\ ~probe.notified
    /\ probe' = [probe EXCEPT
          !.notified = TRUE,
          !.cookies =
              setValidationCookie(
                  setValidationCookie(
                      @, "userLoggedIn",
                      IF authUser # NoUser THEN Str(<<"t", "r", "u", "e">>)
                      ELSE Str(<<"f", "a", "l", "s", "e">>)),
                  "accessToken",
                  IF authUser # NoUser THEN AccessToken(authUser) ELSE Str(<<>>))]
    /\ NavUnchanged

\* onMount of the Dashboard page
DashboardMount ==
    LET accessToken == getCookieValue(probe.cookies, "accessToken")
        userLoggedIn == getCookieValue(probe.cookies, "userLoggedIn")
        currentUser == IF probe.restored THEN authUser ELSE NoUser
    IN
    /\ probe.location = "/Dashboard" /\ ~probe.mounted
    /\ probe' =
          IF ~Truthy(accessToken) \/ userLoggedIn # Str(<<"t", "r", "u", "e">>)
          THEN [probe EXCEPT !.mounted = TRUE, !.navigating = "/Login"]
          ELSE IF currentUser = NoUser
          THEN [probe EXCEPT !.mounted = TRUE, !.navigating = "/Login"]
          ELSE [probe EXCEPT !.mounted = TRUE, !.listening = TRUE]
    /\ NavUnchanged

\* the onAuthStateChanged callback of the Dashboard page
DashboardAuthStateChanged ==
    /\ probe.location = "/Dashboard" /\ probe.listening /\ probe.restored
    /\ ~probe.notified
    /\ probe' = [probe EXCEPT
          !.notified = TRUE,
          !.navigating = IF authUser = NoUser THEN "/Login" ELSE @]
    /\ NavUnchanged

InitNav ==
    /\ \E location \in {"/Login", "/Dashboard"}, cookies \in CookieJars :
          probe = Loaded(location, cookies)
    /\ authUser \in Users \cup {NoUser}
    /\ env = [secret |-> Undefined, storage |-> "ok"]
    /\ now = 0
    /\ signIns = 0
    /\ localStorage = [u \in Users |-> Null]
    /\ profile = [u \in Users |-> NoBackup]
    /\ transactions = [u \in Users |-> <<>>]
    /\ entered = [u \in Users |-> <<>>]
    /\ imported = [t \in Tabs |-> Null]
    /\ user = [t \in Tabs |-> NoUser]
    /\ encryptionKey = [t \in Tabs |-> Null]
    /\ isEncryptionInitialized = [t \in Tabs |-> FALSE]
    /\ busy = [t \in Tabs |-> Idle]
    /\ frames = [t \in Tabs |-> {}]
    /\ listeners = [t \in Tabs |-> [u \in Users |-> NoListener]]
    /\ shown = [t \in Tabs |-> NoDisplay]

NextNav ==
    \/ PageLoad
    \/ AuthRestored
    \/ LoginMount
    \/ LoginAuthStateChanged
    \/ DashboardMount
    \/ DashboardAuthStateChanged

\* the browser loads a page it was sent to, a loaded page mounts, and a
\* client left alone reads its session and notifies its listeners
SpecNav ==
    /\ InitNav /\ [][NextNav]_vars
    /\ WF_vars(PageLoad) /\ WF_vars(AuthRestored)
    /\ WF_vars(LoginMount) /\ WF_vars(LoginAuthStateChanged)
    /\ WF_vars(DashboardMount) /\ WF_vars(DashboardAuthStateChanged)

\* the Add-Data page alone, with its key modal and without its forms
NextKeysAdd ==
    \/ \E u \in Users : SignIn(u, {"add"})
    \/ SignOut({"add"})
    \/ AuthStateChangedAdd
    \/ ImportKeySettled("add")
    \/ MasterKeySettled("add")
    \/ KeyExported("add")
    \/ BackupSettled("add")
    \/ importEncryptionKey("add")
    \/ ImportKeyTested("add")
    \/ ImportBackupSettled("add")

SpecKeysAdd == Init /\ [][NextKeysAdd]_vars

\* the Transactions page alone, with its key modal and without the documents
NextKeysTx ==
    \/ \E u \in Users : SignIn(u, {"tx"})
    \/ SignOut({"tx"})
    \/ AuthStateChangedTx
    \/ CurrencyLoaded("tx")
    \/ ImportKeySettled("tx")
    \/ MasterKeySettled("tx")
    \/ KeyExported("tx")
    \/ importEncryptionKey("tx")
    \/ ImportKeyTested("tx")

SpecKeysTx == Init /\ [][NextKeysTx]_vars

\* the two pages open side by side in one browser, without the key modal
NextTabs ==
    \/ \E u \in Users : SignIn(u, Tabs)
    \/ SignOut(Tabs)
    \/ AuthStateChangedAdd
    \/ AuthStateChangedTx
    \/ CurrencyLoaded("tx")
    \/ \E t \in Tabs : ImportKeySettled(t)
    \/ \E t \in Tabs : MasterKeySettled(t)
    \/ \E t \in Tabs : KeyExported(t)
    \/ BackupSettled("add")

SpecTabs == Init /\ [][NextTabs]_vars

(***************************************************************************)
(* Properties of the cipher and of the codec's read side (SpecCodec).      *)
(***************************************************************************)
ProbeRecordFields ==
    {"id", "amount", "amountIv", "date", "dateIv", "amountPlain", "datePlain"}

\* the envelope of a field is present and decrypts under the session key
AmountOpens(k, rec) ==
    /\ Truthy(rec.amount) /\ Truthy(rec.amountIv)
    /\ decryptData(k, rec.amount, rec.amountIv).ok
DateOpens(k, rec) ==
    /\ Truthy(rec.date) /\ Truthy(rec.dateIv)
    /\ decryptData(k, rec.date, rec.dateIv).ok

C2_DecryptionAtomic ==
    (probe.pc = "opened" /\ (probe.key # probe.wkey \/ probe.tamper # "none"))
        => (~probe.out.ok /\ probe.out.v.t = "Error")

C2_Witness ==
    /\ probe.pc = "opened"
    /\ probe.key \in RandomKeys /\ probe.key # probe.wkey
    /\ probe.tamper = "none"
    /\ ~probe.out.ok

\* C3: decryptTransaction never throws and returns a record object, for every
\* record shape and every session key state.
C3_DecodeNeverThrows ==
    probe.pc = "read"
        => (probe.out.ok /\ DOMAIN probe.out.v = ProbeRecordFields)

C3_Witness ==
    /\ probe.pc = "read"
    /\ probe.key = Null
    /\ probe.rec.amount = Str(<<"-">>) /\ Truthy(probe.rec.amountIv)
    /\ probe.rec.date.t = "number" /\ probe.rec.dateIv.t = "number"
    /\ probe.out.ok

\* C4: for each field independently, when its envelope is absent or does not
\* decrypt under the session key, decryptTransaction returns the field's
\* plaintext mirror; the other field is still decrypted when its envelope opens.
C4_FallbackToMirror ==
    probe.pc = "read" =>
        /\ probe.out.ok
        /\ ~AmountOpens(probe.key, probe.rec)
              => probe.out.v.amount = probe.rec.amountPlain
        /\ ~DateOpens(probe.key, probe.rec)
              => probe.out.v.date = probe.rec.datePlain
        /\ DateOpens(probe.key, probe.rec)
              => probe.out.v.date =
                    TimestampFromDate(NewDate(
                        decryptData(probe.key, probe.rec.date, probe.rec.dateIv).v))
        /\ AmountOpens(probe.key, probe.rec)
              => probe.out.v.amount =
                    parseFloat(decryptData(probe.key, probe.rec.amount,
                                           probe.rec.amountIv).v)

\* the amount was written under key K, the session holds K2 # K, the date
\* envelope opens: the amount is the mirror, the date is the decrypted one
C4_Witness ==
    /\ probe.pc = "read"
    /\ probe.key \in RandomKeys
    /\ probe.rec.amount.t = "base64" /\ probe.rec.amountIv.t = "base64"
    /\ probe.rec.amount.bytes.key # probe.key.raw
    /\ DateOpens(probe.key, probe.rec)
    /\ probe.rec.amountPlain = Num(42) /\ probe.rec.datePlain = Ts(2)
    /\ probe.out.v.amount = Num(42)
    /\ probe.out.v.date = Ts(3 * TicksPerDay)

\* C5: a record without an iv for a field, in particular one written before
\* encryption existed (a numeric amount, a Timestamp date, no amountPlain or
\* datePlain), comes back with that field's existing plaintext value unchanged.
C5_LegacyPassThrough ==
    probe.pc = "read" =>
        /\ (probe.rec.amountIv = Undefined /\ probe.rec.amountPlain = Undefined
            /\ probe.rec.amount.t = "number")
              => (probe.out.ok /\ probe.out.v.amount = probe.rec.amount)
        /\ (probe.rec.dateIv = Undefined /\ probe.rec.datePlain = Undefined
            /\ probe.rec.date.t = "Timestamp")
              => (probe.out.ok /\ probe.out.v.date = probe.rec.date)

(***************************************************************************)
(* Properties of the write path and of initialization (SpecAdd, SpecTx).   *)
(***************************************************************************)
\* the stored records with what was entered for them
Written == {[u |-> u, i |-> i] : u \in Users, i \in 1..MaxDocs}
IsWritten(w) == w.i <= Len(transactions[w.u])
DocOf(w) == WithIds(transactions[w.u])[w.i]
EnteredOf(w) == entered[w.u][w.i]
\* both envelopes of the record were sealed while the session held key k
WrittenUnder(k, doc) ==
    doc.amount.bytes.key = k.raw /\ doc.date.bytes.key = k.raw

\* C6: a record that handleManualSubmit or handleCSVImport wrote while the
\* session held key K decodes, in a session holding K, to the numeric amount
\* and to the date that were entered.
C6_CodecRoundTrip ==
    \A w \in Written : IsWritten(w) =>
        \A k \in AllKeys : WrittenUnder(k, DocOf(w)) =>
            LET out == decryptTransaction(k, DocOf(w))
            IN /\ out.ok
               /\ parseFloat(EnteredOf(w).amount).t = "number"
                     => out.v.amount = parseFloat(EnteredOf(w).amount)
               /\ Truthy(EnteredOf(w).date)
                     => out.v.date = TimestampFromDate(NewDate(EnteredOf(w).date))

\* the form's amount -7 and date "3", written and read back under the key
\* the Add-Data page holds
C6_Witness ==
    \E w \in Written :
        /\ IsWritten(w)
        /\ encryptionKey["add"] # Null
        /\ WrittenUnder(encryptionKey["add"], DocOf(w))
        /\ EnteredOf(w) = [by |-> "manual", amount |-> Num(0 - 7), date |-> Str(<<"3">>)]
        /\ decryptTransaction(encryptionKey["add"], DocOf(w)).v.amount = Num(0 - 7)
        /\ decryptTransaction(encryptionKey["add"], DocOf(w)).v.date
               = Ts(3 * TicksPerDay)

\* C7: for every stored record, what the amount envelope and the date
\* envelope decrypt to under the key that sealed them equals the stored
\* amountPlain and datePlain.
C7_MirrorConsistency ==
    \A w \in Written : IsWritten(w) =>
        LET doc == DocOf(w)
            a == decryptData(CryptoKey(doc.amount.bytes.key), doc.amount, doc.amountIv)
            d == decryptData(CryptoKey(doc.date.bytes.key), doc.date, doc.dateIv)
        IN /\ a.ok => parseFloat(a.v) = doc.amountPlain
           /\ d.ok => TimestampFromDate(NewDate(d.v)) = doc.datePlain

\* C8: a record is written only while encryption initialization of the
\* current session has completed (isEncryptionInitialized, with a key).
C8_ReadyBeforeWrite ==
    [][transactions' # transactions
          => (isEncryptionInitialized["add"] /\ encryptionKey["add"] # Null)]_vars

\* C9: once the Transactions page has run its callback for a signed-in user
\* to the end, whether initialization succeeded or failed, the user's list is
\* loaded: a listener is attached, and what it delivered is shown, one entry
\* per stored record.
C9_ReadsDegradeGracefully ==
    \A u \in Users :
        (authUser = u /\ user["tx"] = u /\ frames["tx"] = {}) =>
            /\ listeners["tx"][u] # NoListener
            /\ listeners["tx"][u] = Len(transactions[u])
                  => Len(shown["tx"].list) = Len(transactions[u])

\* C10: for a user with a remote key backup and no local cache entry, the
\* key written to the cache is the backed-up key, and the backup is not
\* replaced by another key.
C10_BackupIsSourceOfTruth ==
    [][\A u \in Users : profile[u] # NoBackup =>
          /\ profile'[u].encryptionKey = profile[u].encryptionKey
          /\ localStorage[u] = Null
                => localStorage'[u] \in {Null, profile[u].encryptionKey}]_vars

\* the session of tab t in which the page last imported a key is still on:
\* the user has not signed out since
ImportStands(t) ==
    /\ imported[t] # Null
    /\ imported[t].session = signIns
    /\ authUser = imported[t].uid
    /\ user[t] = authUser

\* C11: after a successful import, and until the next import or sign-out,
\* the user's cache entry is the imported text and the page's key is the
\* imported key, whatever initialization was in progress.
C11_ImportSupersedes ==
    \A t \in Tabs : ImportStands(t) =>
        /\ localStorage[imported[t].uid] = imported[t].text
        /\ encryptionKey[t] = importKey(imported[t].text).v

\* C12: an import whose text fails base64 decoding or key import reports
\* the invalid-key error and leaves the cache, the page's key, the flag and
\* the remote backup as they were.
C12_FailedImportChangesNothing ==
    [][\A t \in Tabs : \A f \in frames[t] :
          (f.pc = "testKey" /\ ~f.loc.pending.ok /\ f \notin frames'[t]) =>
              /\ shown'[t].errorMessage = "Invalid encryption key format"
              /\ localStorage' = localStorage
              /\ encryptionKey'[t] = encryptionKey[t]
              /\ isEncryptionInitialized'[t] = isEncryptionInitialized[t]
              /\ profile' = profile]_vars

\* user A, Ready with a generated key that is cached and backed up, has
\* pasted an invalid text and has been told so
C12_Witness ==
    /\ shown["add"].errorMessage = "Invalid encryption key format"
    /\ ~busy["add"].isImportingKey
    /\ imported["add"] = Null
    /\ user["add"] = "A"
    /\ isEncryptionInitialized["add"]
    /\ encryptionKey["add"] \in RandomKeys
    /\ localStorage["A"] = exportKey(encryptionKey["add"])
    /\ profile["A"].encryptionKey = localStorage["A"]

\* the step completes, with the flag set, the initialization f of tab t that
\* found no cache entry and made a key
CompletesFirstInit(t, f) ==
    /\ f.pc \in {"exportKey", "setDoc"}
    /\ f \notin frames'[t]
    /\ frames'[t] \subseteq frames[t]
    /\ isEncryptionInitialized'[t]

\* C13: on every page, an initialization that found no cache entry completes
\* only after it has cached the exported key and attempted to write that
\* same text to the user's profile document.
C13_FirstInitBacksUp ==
    [][\A t \in Tabs : \A f \in frames[t] :
          CompletesFirstInit(t, f) =>
              /\ f.pc = "setDoc"
              /\ f.loc.keyString = localStorage[f.loc.target]]_vars

\* the step ends the await of importKey in the import f of tab t with
\* success: the key was valid and its text is now the cache entry of the
\* page's user
ImportSucceeds(t, f) ==
    /\ f.pc = "testKey"
    /\ f \notin frames'[t]
    /\ f.loc.pending.ok
    /\ user[t] \in Users
    /\ localStorage'[user[t]] = f.loc.keyString

\* C14: on every page, the step in which an import succeeds also starts a
\* write of the imported text to the user's profile document.
C14_ImportRefreshesBackup ==
    [][\A t \in Tabs : \A f \in frames[t] :
          ImportSucceeds(t, f) =>
              \E g \in frames'[t] :
                  /\ g.pc = "backupSetDoc"
                  /\ g.loc.target = user[t]
                  /\ g.loc.keyString = f.loc.keyString]_vars

\* the page of tab t is as the operation f left it when it started the
\* backup write: it holds the operation's user and a key, and after an
\* import the flag (which initializeEncryption sets only after the write)
StillHeld(t, f) ==
    /\ user[t] = f.loc.storageKey
    /\ encryptionKey[t] # Null
    /\ (f.pc = "backupSetDoc" => isEncryptionInitialized[t])

\* C15: when the write of the key backup fails, during initialization or
\* import, the operation ends with the page Ready: the flag is set, the key
\* is still the page's key, the cache entry is still there, and no error is
\* shown.
C15_BackupFailureNotFatal ==
    [][\A t \in Tabs : \A f \in frames[t] :
          (/\ f.pc \in {"setDoc", "backupSetDoc"}
           /\ f \notin frames'[t]
           /\ profile' = profile
           /\ StillHeld(t, f)) =>
              /\ isEncryptionInitialized'[t]
              /\ encryptionKey'[t] = encryptionKey[t]
              /\ localStorage'[f.loc.storageKey] = localStorage[f.loc.storageKey]
              /\ localStorage[f.loc.storageKey] # Null
              /\ shown'[t].errorMessage = shown[t].errorMessage]_vars

\* user A is Ready on the Add-Data page with the key the page generated, the
\* key is cached, and the profile document has no backup: the write failed
C15_Witness ==
    /\ user["add"] = "A"
    /\ frames["add"] = {}
    /\ isEncryptionInitialized["add"]
    /\ encryptionKey["add"] \in RandomKeys
    /\ localStorage["A"] = exportKey(encryptionKey["add"])
    /\ profile["A"] = NoBackup
    /\ shown["add"].errorMessage = ""

\* the step changes the cache entry of user u, which held a key
Rotates(u) == localStorage[u] # Null /\ localStorage'[u] # localStorage[u]

\* C16 (as stated): once the cache entry of a user holds a key, only a
\* successful import changes it, whatever initializations run or race.
C16_NoRotation ==
    [][\A u \in Users : Rotates(u) =>
          \E t \in Tabs : \E f \in frames[t] : user[t] = u /\ ImportSucceeds(t, f)]_vars

\* C16 (amended): a cache entry that holds a key is changed only by a
\* successful import or by the setItem of an initialization that had found
\* no entry when it started; the initialization that finds an entry (it
\* awaits importKey of the cached text) changes neither the cache nor the
\* remote backup.
C16_NoRotationOnceFound ==
    [][/\ \A u \in Users : Rotates(u) =>
             \E t \in Tabs : \E f \in frames[t] :
                 \/ user[t] = u /\ ImportSucceeds(t, f)
                 \/ f.pc = "exportKey" /\ f.loc.storageKey = u /\ f \notin frames'[t]
       /\ \A t \in Tabs : \A f \in frames[t] :
             (f.pc = "importKey" /\ f \notin frames'[t]) =>
                 localStorage' = localStorage /\ profile' = profile]_vars

\* the Add-Data page is Ready for user A with the key it generated, cached
\* and backed up; the Transactions page, signed in as A, has found that
\* entry and awaits importKey of it
C16_Witness ==
    /\ user["add"] = "A" /\ user["tx"] = "A"
    /\ frames["add"] = {}
    /\ isEncryptionInitialized["add"]
    /\ encryptionKey["add"] \in RandomKeys
    /\ localStorage["A"] = exportKey(encryptionKey["add"])
    /\ profile["A"].encryptionKey = localStorage["A"]
    /\ \E f \in frames["tx"] :
          /\ f.pc = "importKey"
          /\ f.loc.storageKey = "A"
          /\ f.loc.pending = Ok(encryptionKey["add"])

\* with a shared secret and a working localStorage, the two pages have run
\* their initialization for user u, signed in once and found without a cache
\* entry, to the end
BothSettled(u) ==
    /\ Truthy(env.secret)
    /\ env.storage = "ok"
    /\ signIns = 1
    /\ authUser = u
    /\ \A t \in Tabs : user[t] = u /\ frames[t] = {}

\* both pages are Ready with one key, and the cache entry is its export
Converged(u) ==
    /\ \A t \in Tabs : isEncryptionInitialized[t] /\ encryptionKey[t] # Null
    /\ encryptionKey["add"] = encryptionKey["tx"]
    /\ localStorage[u] = exportKey(encryptionKey["add"])

InitSettled(t) ==
    \A f \in frames[t] : f.fn \notin {"initializeEncryption", "onAuthStateChanged"}

\* C18: an initialization ends in exactly one of Ready (flag set, key held)
\* and Failed (flag clear): once none is in flight, a set flag comes with a
\* key.
C18_ReadyOrFailed ==
    \A t \in Tabs : (InitSettled(t) /\ isEncryptionInitialized[t]) =>
        encryptionKey[t] # Null

C20_IvFresh ==
    \A i, j \in 1..Len(probe.envs) : i # j => probe.envs[i].iv # probe.envs[j].iv

\* C20 (amended): every envelope carries, and is sealed with, the value
\* crypto.getRandomValues returned to its own call; two envelopes carry the
\* same initialization vector exactly when the random source returned the
\* same value to both calls.
C20_IvIsTheDraw ==
    /\ \A i \in 1..Len(probe.envs) :
          /\ probe.envs[i].iv = Btoa(probe.draws[i])
          /\ probe.envs[i].encrypted.bytes.iv = probe.draws[i]
    /\ \A i, j \in 1..Len(probe.envs) :
          probe.envs[i].iv = probe.envs[j].iv <=> probe.draws[i] = probe.draws[j]

\* three calls under one key whose draws all differ from the one before
C20_Witness ==
    /\ Len(probe.envs) = 3
    /\ probe.draws[1] # probe.draws[2]
    /\ probe.draws[2] # probe.draws[3]
    /\ probe.envs[1].iv # probe.envs[2].iv
    /\ probe.envs[2].iv # probe.envs[3].iv

\* the sum the Dashboard would show had it decoded the records: the
\* absolute decoded amounts of the expenses
RECURSIVE SumDecoded(_, _, _)
SumDecoded(key, docs, type) ==
    IF docs = <<>> THEN Num(0)
    ELSE LET t == decryptTransaction(key, docs[Len(docs)]).v
             sum == SumDecoded(key, SubSeq(docs, 1, Len(docs) - 1), type)
         IN IF t.type = type THEN Plus(sum, MathAbs(t.amount)) ELSE sum

\* C21: every aggregate view computes over the decoded amount and date of
\* each record: once the Dashboard has handled a snapshot, its total spent
\* is the sum of the decoded amounts of the expenses, and the Analytics
\* metrics are computed.
C21_ViewsDecrypt ==
    /\ probe.totalTransactions = Len(probe.docs) =>
          probe.totalSpent \in {Undefined, SumDecoded(probe.key, probe.docs, "expense")}
    /\ probe.metrics.ok

\* every page has run its callback for the signed-in user u and nothing is
\* in flight on any page
AllSettledFor(u) ==
    /\ authUser = u
    /\ \A t \in Tabs : user[t] = u /\ frames[t] = {}

\* C22: once all initializations have finished, the key a page holds is the
\* key cached under the entry of the user signed in now, whatever users
\* signed in before (here with a shared secret, where one user's
\* initializations all make the same key).
C22_OneKeyPerUser ==
    \A u \in Users : \A t \in Tabs :
        (AllSettledFor(u) /\ Truthy(env.secret) /\ encryptionKey[t] # Null) =>
            localStorage[u] = exportKey(encryptionKey[t])

\* C23: when nobody is signed in, every page has run its sign-out callback
\* and no asynchronous operation is pending, no page holds a key and no
\* page's isEncryptionInitialized is set.
C23_SignOutTearsDown ==
    (authUser = NoUser /\ \A t \in Tabs : user[t] = NoUser /\ frames[t] = {}) =>
        \A t \in Tabs : encryptionKey[t] = Null /\ ~isEncryptionInitialized[t]

\* C24: the backup write of an initialization changes no profile document
\* but that of the user the initialization was started for (the user whose
\* cache entry it looked up).
C24_NoCrossUserWrites ==
    [][\A t \in Tabs : \A f \in frames[t] :
          (f.pc = "setDoc" /\ f \notin frames'[t]) =>
              \A u \in Users : profile'[u] # profile[u] => u = f.loc.storageKey]_vars

\* the snapshot the listener of user u on page t delivered last: the
\* collection is only ever appended to, so it is the query over the records
\* the listener had seen
LastDelivered(t, u) ==
    OrderByDateDesc(WithIds(SubSeq(transactions[u], 1, listeners[t][u])))

SameRecords(list, raw) ==
    /\ Len(list) = Len(raw)
    /\ \A i \in 1..Len(raw) : list[i].id = raw[i].id

SnapshotsFinished(t, u) ==
    /\ user[t] = u
    /\ listeners[t][u] >= 0
    /\ \A v \in Users \ {u} : listeners[t][v] < 0
    /\ frames[t] = {}

\* C25: once every snapshot callback of the Transactions page has finished,
\* the displayed list holds the records of the snapshot delivered last
C25_LatestSnapshotWins ==
    \A u \in Users :
        SnapshotsFinished("tx", u) => SameRecords(shown["tx"].list, LastDelivered("tx", u))

\* the key backup a profile document carries
KeyBackup(d) ==
    IF d = NoDoc THEN <<Undefined, Undefined>> ELSE <<d.encryptionKey, d.keyBackupDate>>

\* the other fields of a profile document, the modification stamp aside
ProfileFields(d) ==
    [(IF d = NoDoc THEN EmptyDoc ELSE d) EXCEPT
        !.encryptionKey = Undefined, !.keyBackupDate = Undefined,
        !.updatedAt = Undefined]

\* C26: a step of the Profile page (setupUserProfile, saveProfile) leaves
\* the key backup fields of the user's profile document as they were, and
\* the backup write leaves the other fields as they were
C26_ProfileWritesPreserveBackup ==
    [][\A u \in Users :
          IF probe.page'[u] # probe.page[u]
          THEN KeyBackup(probe.users'[u]) = KeyBackup(probe.users[u])
          ELSE ProfileFields(probe.users'[u]) = ProfileFields(probe.users[u])]_vars

HoldsUserId(d) == d # NoDoc /\ Truthy(d.userId)

Lowered(d) == toLowerCase(d.userId)

\* C27: no two users' profile documents carry the same User ID, compared
\* case-insensitively
C27_UserIdsUnique ==
    \A u \in Users : \A v \in Users \ {u} :
        (HoldsUserId(probe.users[u]) /\ HoldsUserId(probe.users[v])) =>
            Lowered(probe.users[u]) # Lowered(probe.users[v])

\* C28: once a user's profile document holds a User ID, no step changes it
\* or reserves another id for that user
C28_UserIdPermanent ==
    [][\A u \in Users :
          HoldsUserId(probe.users[u]) =>
              /\ HoldsUserId(probe.users'[u])
              /\ probe.users'[u].userId = probe.users[u].userId
              /\ \A d \in probe.userIds' \ probe.userIds :
                     d.uid = u => d.id = Lowered(probe.users[u])]_vars

\* the row's description is empty or its amount is not a number
RowInvalid(file, i) ==
    \/ ~Truthy(RowField(file, i, "description"))
    \/ parseFloat(RowField(file, i, "amount")).t = "NaN"

MissingHeader(file) ==
    \E h \in {"description", "amount", "date"} :
        \A c \in 1..Len(file.headers) : file.headers[c] # h

\* C29: handleCSVImport writes nothing for a file without a required column,
\* and does not write a data row whose description is empty or whose amount
\* is not a number
C29_CsvRowValidation ==
    [][\A f \in frames["add"] :
          (f.fn = "handleCSVImport" /\ f \notin frames'["add"]) =>
              /\ (f.pc = "text" /\ MissingHeader(f.loc.file)) =>
                     /\ transactions' = transactions
                     /\ \A g \in frames'["add"] : g.fn # "handleCSVImport"
              /\ (f.pc = "encryptDate" /\ RowInvalid(f.loc.file, f.loc.i)) =>
                     transactions' = transactions]_vars

\* the redirects are over: the page has mounted and sends the browser
\* nowhere
Settled(location) ==
    /\ probe.location = location /\ probe.mounted /\ probe.navigating = "none"

\* C30: from every combination of cookies and provider session the redirects
\* of the Login and Dashboard pages stop in the end, on /Dashboard for an
\* authenticated user and on /Login otherwise
C30_RedirectsSettle ==
    <>[]Settled(IF authUser # NoUser THEN "/Dashboard" ELSE "/Login")

====
